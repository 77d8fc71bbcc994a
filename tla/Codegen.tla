------------------------------- MODULE Codegen -------------------------------
(***************************************************************************)
(* `nural generate` and `nural add` over one project directory.            *)
(*                                                                         *)
(* Shells run commands side by side and share nothing but the files.  One  *)
(* step is what a command does between two awaits.  A source file that is  *)
(* wired (src/app.ts, src/main.ts) is read, edited and formatted in        *)
(* memory, then written back.  Every write truncates the file and then     *)
(* fills it from its start, so a command killed in between leaves it       *)
(* empty, another may read it empty, and of two that truncated it before   *)
(* either filled it the longer text leaves its tail behind the other.      *)
(* File contents are kept only as far as the edits look at them.           *)
(***************************************************************************)
EXTENDS Naturals, Sequences, SequencesExt, FiniteSets

CONSTANTS
    Shells,          \* terminals, CI jobs, editors running the CLI
    Args,            \* what is typed: [command, schematic, name]
    FileName,        \* typed name -> the name in lower case
    Mentions,        \* file name -> the names whose identifier its own ends with
    ModuleFiles,     \* the templates of a resource, in the order they are written
    Installs,        \* the sets of templates an installed CLI may hold
    Mains,           \* how src/main.ts may look
    MaxCommands,     \* bound: commands typed
    MaxFaults        \* bound: kills, failed writes and directories removed

None == "none"
Schematics == {"resource", "middleware", "provider", "filter"}
Integrations == {"redis", "rabbitmq", "mongoose", "prisma-pg"}

ASSUME ModuleFilesAssumption == ModuleFiles \in Seq(ToSet(ModuleFiles)) /\ ModuleFiles # <<>>

VARIABLES
    installed,       \* templates on disk
    made,            \* directories under src/modules
    files,           \* module -> its files written
    granular,        \* <<schematic, name>> written under src/common, src/providers
    hollow,          \* generated files that were truncated and not filled yet
    sources,         \* "app", "main", "package" -> content
    shell,           \* shell -> the command it runs
    typed, faults,   \* bounds
    reported,        \* history: commands that ended without an error and are not undone
    removed,         \* history: modules the user deleted
    overlooked,      \* history: reported, and not wired: another's identifier was found
    overlaid,        \* history: files written over the text of another command
    undisturbed      \* history: no two commands overlapped, no write was cut

history == <<reported, removed, overlooked, overlaid, undisturbed>>
project == <<installed, made, files, granular, hollow, sources>>
codegenVars == <<project, shell, typed, faults, history>>

FileNames == {FileName[n] : n \in DOMAIN FileName}

\* A wired source: the user's own text with a call app.start( or without one,
\* that text cut off, or no file; the registrations in order; the names that
\* only a comment holds
Source(text) == [text |-> text, calls |-> <<>>, notes |-> {}]
Emptied == Source("cut")
NoFile == Source("missing")
Package == [deps |-> {}, scripts |-> {"dev"}]

\* A main.ts nobody has wired yet has no registration
ASSUME MainsAssumption == Mains \subseteq {Source("starts"), Source("plain"), NoFile}

Cut(f) == IF f = "package" THEN [deps |-> {}, scripts |-> {}] ELSE Emptied

NoShell == [at |-> "idle", kind |-> None, name |-> None, todo |-> <<>>, next |-> Emptied]

CodegenInit ==
    /\ installed \in Installs
    /\ made = {}
    /\ files = [n \in FileNames |-> {}]
    /\ granular = {} /\ hollow = {}
    /\ \E main \in Mains : sources = [app |-> Source("plain"), main |-> main, package |-> Package]
    /\ shell = [s \in Shells |-> NoShell]
    /\ typed = 0 /\ faults = 0
    /\ reported = {} /\ removed = {} /\ overlooked = {} /\ overlaid = {}
    /\ undisturbed = TRUE

\* What the words on the command line ask for; prompts supply what is missing
Resolve(a) ==
    IF a.name # None THEN {[kind |-> a.schematic, name |-> a.name]}
    ELSE IF a.schematic \notin Schematics THEN {[kind |-> "resource", name |-> a.schematic]}
    ELSE {[kind |-> a.schematic, name |-> n] : n \in DOMAIN FileName}

\* Every name that is typed is one that has a file name
ASSUME ArgsAssumption ==
    \A a \in Args :
        a.command = "generate" =>
            \A c \in Resolve(a) : c.kind \in Schematics => c.name \in DOMAIN FileName

(***************************************************************************)
(* Shell bookkeeping                                                       *)
(***************************************************************************)
Go(s, at) == shell' = [shell EXCEPT ![s].at = at]
Do(s, at, todo) == shell' = [shell EXCEPT ![s].at = at, ![s].todo = todo]
Busy == {s \in Shells : shell[s].at # "idle"}

Begins(s, kind, name, at) ==
    /\ shell' = [shell EXCEPT ![s] = [NoShell EXCEPT !.at = at, !.kind = kind, !.name = name]]
    /\ undisturbed' = (undisturbed /\ Busy = {})
Ends(s) == shell' = [shell EXCEPT ![s] = NoShell]
Succeeds(s) == Ends(s) /\ reported' = reported \cup {<<shell[s].kind, shell[s].name>>}

\* fs.outputFile, of a file that was there or not: truncated, then filled.  Two
\* commands that write the same generated file write the same text.
Opens(file, there) ==
    /\ hollow' = hollow \cup {file}
    /\ overlaid' = IF there THEN overlaid \cup {file} ELSE overlaid
    /\ UNCHANGED <<installed, sources, typed, faults, reported, removed, overlooked, undisturbed>>
Fills(file) ==
    /\ hollow' = hollow \ {file}
    /\ UNCHANGED <<installed, made, files, granular, sources, typed, faults,
                   removed, overlooked, overlaid, undisturbed>>
Filling == {"fill", "fillModule", "fillFile", "fillProvider", "fillSchema"}

(***************************************************************************)
(* generate                                                                *)
(***************************************************************************)
\* A resource stops at a directory that exists, before its first await; the
\* other schematics look for their file only once its directory was made.
Generate(s, a) ==
    /\ a.command = "generate"
    /\ shell[s].at = "idle"
    /\ typed < MaxCommands
    /\ typed' = typed + 1
    /\ \E c \in Resolve(a) :
        LET file == FileName[c.name] IN
        IF \/ c.kind \notin Schematics
           \/ c.kind = "resource" /\ file \in made
        THEN UNCHANGED <<shell, undisturbed>>
        ELSE Begins(s, c.kind, file, IF c.kind = "resource" THEN "dirs" ELSE "dir")
    /\ UNCHANGED <<project, faults, reported, removed, overlooked, overlaid>>

RegisterFirst(s) ==
    /\ shell[s].at = "dirs"
    /\ made' = made \cup {shell[s].name}
    /\ Do(s, "read", ModuleFiles)
    /\ UNCHANGED <<installed, files, granular, hollow, sources, typed, faults, history>>

EnsureDirs(s) ==
    /\ shell[s].at = "dirs"
    /\ made' = made \cup {shell[s].name}
    /\ Do(s, "files", ModuleFiles)
    /\ UNCHANGED <<installed, files, granular, hollow, sources, typed, faults, history>>

\* The file at the head of the list; a template that is not there is logged
\* and passed over
NextModuleFile(s) == Do(s, IF Len(shell[s].todo) = 1 THEN "read" ELSE "files", Tail(shell[s].todo))
ModuleFile(s) == <<"resource", shell[s].name, Head(shell[s].todo)>>

SkipModuleFile(s) ==
    /\ shell[s].at = "files"
    /\ Head(shell[s].todo) \notin installed
    /\ NextModuleFile(s)
    /\ UNCHANGED <<project, typed, faults, history>>

OpenModuleFile(s) ==
    LET n == shell[s].name
        f == Head(shell[s].todo)
    IN
    /\ shell[s].at = "files"
    /\ f \in installed
    /\ files' = [files EXCEPT ![n] = @ \cup {f}]
    /\ made' = made \cup {n}
    /\ Opens(ModuleFile(s), f \in files[n])
    /\ Go(s, "fillModule")
    /\ UNCHANGED granular

FillModuleFile(s) ==
    /\ shell[s].at = "fillModule"
    /\ Fills(ModuleFile(s))
    /\ NextModuleFile(s)
    /\ UNCHANGED reported

EnsureDir(s) ==
    /\ shell[s].at = "dir"
    /\ IF <<shell[s].kind, shell[s].name>> \in granular THEN Ends(s) ELSE Go(s, "file")
    /\ UNCHANGED <<project, typed, faults, history>>

\* The one file of a granular schematic; the provider and the schema of an
\* integration (add), for which nothing looks whether they are there already
Granule(c) ==
    CASE c.at \in {"file", "fillFile"} -> <<c.kind, c.name>>
      [] c.at \in {"provider", "fillProvider"} -> <<"integration", c.kind>>
      [] c.at \in {"schema", "fillSchema"} -> <<"schema", c.kind>>

OpenGranular(s) ==
    LET c == shell[s] IN
    /\ c.at \in {"file", "provider", "schema"}
    /\ granular' = granular \cup {Granule(c)}
    /\ Opens(Granule(c), Granule(c) \in granular)
    /\ Go(s, CASE c.at = "file" -> "fillFile"
                [] c.at = "provider" -> "fillProvider"
                [] c.at = "schema" -> "fillSchema")
    /\ UNCHANGED <<made, files>>

FillGranular(s) ==
    LET c == shell[s]
        next == CASE c.at = "fillFile" /\ c.kind = "provider" -> "read"
                  [] c.at = "fillProvider" /\ c.kind = "prisma-pg" -> "schema"
                  [] c.at = "fillSchema" -> "scripts"
                  [] OTHER -> None
    IN
    /\ c.at \in {"fillFile", "fillProvider", "fillSchema"}
    /\ Fills(Granule(c))
    /\ IF next = None THEN Succeeds(s) ELSE Go(s, next) /\ UNCHANGED reported

(***************************************************************************)
(* Wiring a module into src/app.ts, a provider into src/main.ts            *)
(***************************************************************************)
Target(kind) == CASE kind = "resource" -> "app" [] kind = "provider" -> "main" [] OTHER -> "package"

\* `content.includes(name)`: the text of one identifier may end another's
Includes(c, n) == \E m \in ToSet(c.calls) \cup c.notes : n = m \/ n \in Mentions[m]

\* After the last registerModule(..), or at the end of the file
RegisterModule(c, n) == [c EXCEPT !.calls = Append(@, n)]

\* Before the text app.start(, or in a comment at the end when there is none
RegisterProvider(c, n) ==
    IF c.text = "starts" THEN [c EXCEPT !.calls = Append(@, n)] ELSE [c EXCEPT !.notes = @ \cup {n}]

WiredOver(kind, c, n) ==
    [(IF kind = "resource" THEN RegisterModule(c, n) ELSE RegisterProvider(c, n)) EXCEPT !.calls = <<n>>]

Wired(kind, c, n) == IF kind = "resource" THEN RegisterModule(c, n) ELSE RegisterProvider(c, n)

ReadUnchecked(s) ==
    LET k == shell[s].kind IN
    /\ shell[s].at = "read"
    /\ sources[Target(k)] # NoFile
    /\ shell' = [shell EXCEPT ![s].at = "truncate",
                              ![s].next = Wired(k, sources[Target(k)], shell[s].name)]
    /\ UNCHANGED <<project, typed, faults, history>>

\* Reading, the includes check and the edit are one step: nothing is awaited
\* between them.  The edited text is then formatted, and this is awaited.
ReadSource(s) ==
    LET k == shell[s].kind
        n == shell[s].name
        c == sources[Target(k)]
    IN
    /\ shell[s].at = "read"
    /\ CASE c = NoFile -> Ends(s) /\ UNCHANGED reported
         [] c # NoFile /\ Includes(c, n) -> Succeeds(s)
         [] OTHER ->
            /\ shell' = [shell EXCEPT ![s].at = "truncate", ![s].next = Wired(k, c, n)]
            /\ UNCHANGED reported
    /\ overlooked' = IF n \in ToSet(c.calls) \cup c.notes THEN overlooked
                     ELSE overlooked \cup (reported' \ reported)
    /\ UNCHANGED <<project, typed, faults, removed, overlaid, undisturbed>>

Truncate(s) ==
    LET f == Target(shell[s].kind) IN
    /\ shell[s].at = "truncate"
    /\ sources' = [sources EXCEPT ![f] = Cut(f)]
    /\ Go(s, "fill")
    /\ UNCHANGED <<installed, made, files, granular, hollow, typed, faults, history>>

\* Written over the text another command filled in meanwhile: a longer one
\* leaves its tail, which may hold its last registrations and app.start(; a
\* package.json with a tail cannot be parsed
Overlays(f, next, old) ==
    {next} \cup
    IF f = "package" THEN {Cut("package")}
    ELSE [text : {next.text, old.text},
          calls : {next.calls \o SubSeq(old.calls, i, Len(old.calls)) : i \in 1 .. Len(old.calls) + 1},
          notes : {next.notes \cup rest : rest \in SUBSET old.notes}]

Fill(s) ==
    LET f == Target(shell[s].kind)
        next == shell[s].next
        alone == sources[f] \in {Cut(f), next}
    IN
    /\ shell[s].at = "fill"
    /\ \E c \in IF alone THEN {next} ELSE Overlays(f, next, sources[f]) :
          sources' = [sources EXCEPT ![f] = c]
    /\ overlaid' = IF alone THEN overlaid ELSE overlaid \cup {<<f>>}
    /\ Succeeds(s)
    /\ UNCHANGED <<installed, made, files, granular, hollow, typed, faults,
                   removed, overlooked, undisturbed>>

(***************************************************************************)
(* add                                                                     *)
(***************************************************************************)
Deps(i) == CASE i = "redis" -> {"ioredis"}
             [] i = "rabbitmq" -> {"amqplib"}
             [] i = "mongoose" -> {"mongoose"}
             [] i = "prisma-pg" -> {"@prisma/client", "@prisma/adapter-pg", "pg"}
DevDeps(i) == CASE i = "rabbitmq" -> {"@types/amqplib"}
                [] i = "prisma-pg" -> {"prisma", "@types/pg"}
                [] OTHER -> {}

Add(s, a) ==
    /\ a.command = "add"
    /\ shell[s].at = "idle"
    /\ typed < MaxCommands
    /\ typed' = typed + 1
    /\ \E i \in IF a.name = None THEN Integrations ELSE {a.name} :
        IF i \in Integrations
        THEN Begins(s, i, i, "install")
        ELSE UNCHANGED <<shell, undisturbed>>
    /\ UNCHANGED <<project, faults, reported, removed, overlooked, overlaid>>

\* The package manager's own edit of package.json, if it can be parsed; a
\* second call for the development dependencies, when there are any
Install(s, deps, next) ==
    /\ IF sources.package = Cut("package") THEN Ends(s) /\ UNCHANGED sources
       ELSE Go(s, next) /\ sources' = [sources EXCEPT !["package"].deps = @ \cup deps]
    /\ UNCHANGED <<installed, made, files, granular, hollow, typed, faults, history>>
InstallDeps(s) ==
    /\ shell[s].at = "install"
    /\ Install(s, Deps(shell[s].kind),
               IF DevDeps(shell[s].kind) = {} THEN "provider" ELSE "install -D")
InstallDevDeps(s) == shell[s].at = "install -D" /\ Install(s, DevDeps(shell[s].kind), "provider")

DbScripts == {"db:generate", "db:migrate"}

\* package.json is read again here, after the installs changed it
AddScripts(s) ==
    /\ shell[s].at = "scripts"
    /\ IF sources.package = Cut("package")
       THEN Ends(s)
       ELSE shell' = [shell EXCEPT ![s].at = "truncate",
                                   ![s].next = [sources.package EXCEPT !.scripts = @ \cup DbScripts]]
    /\ UNCHANGED <<project, typed, faults, history>>

(***************************************************************************)
(* Kills, failures, and the user                                           *)
(***************************************************************************)
\* Ctrl-C, or an error that the catch around the command prints: the command
\* stops where it is, and what it wrote stays.  A formatter never fails.
Stops(s) ==
    /\ s \in Busy
    /\ faults < MaxFaults
    /\ faults' = faults + 1
    /\ Ends(s)
    /\ undisturbed' = (undisturbed /\ shell[s].at \notin Filling)
    /\ UNCHANGED <<project, typed, reported, removed, overlooked, overlaid>>

\* The user deletes a module to have it generated anew
RemoveModule(n) ==
    /\ n \in made
    /\ \A s \in Busy : shell[s].name # n
    /\ faults < MaxFaults
    /\ faults' = faults + 1
    /\ made' = made \ {n}
    /\ files' = [files EXCEPT ![n] = {}]
    /\ hollow' = hollow \ {<<"resource", n, f>> : f \in files[n]}
    /\ reported' = reported \ {<<"resource", n>>}
    /\ removed' = removed \cup {n}
    /\ UNCHANGED <<installed, granular, sources, shell, typed, overlooked, overlaid, undisturbed>>

CodegenNext ==
    \/ \E s \in Shells, a \in Args : Generate(s, a) \/ Add(s, a)
    \/ \E s \in Shells :
        \/ EnsureDirs(s) \/ SkipModuleFile(s) \/ OpenModuleFile(s) \/ FillModuleFile(s)
        \/ EnsureDir(s) \/ OpenGranular(s) \/ FillGranular(s)
        \/ ReadSource(s) \/ Truncate(s) \/ Fill(s)
        \/ InstallDeps(s) \/ InstallDevDeps(s) \/ AddScripts(s)
        \/ Stops(s)
    \/ \E n \in FileNames : RemoveModule(n)

CodegenSpec == CodegenInit /\ [][CodegenNext]_codegenVars

(***************************************************************************)
(* Properties                                                              *)
(***************************************************************************)
\* What app.ts and main.ts register was generated in full first: whatever is
\* killed, fails or overlaps, the project never imports a file the command had
\* still to write, nor one that is empty, but for a file that a second command
\* of the same name truncated again.  Files whose template is missing are
\* passed over.
Whole(file) == file \in hollow => file \in overlaid
Wanted == ToSet(ModuleFiles) \cap installed
Written(n) == \A f \in Wanted : f \in files[n] /\ Whole(<<"resource", n, f>>)
WiredIsWritten ==
    /\ \A n \in ToSet(sources.app.calls) \ removed : Written(n)
    /\ \A n \in ToSet(sources.main.calls) : <<"provider", n>> \in granular /\ Whole(<<"provider", n>>)

\* However often a module is deleted and generated again, and whoever does it
\* at the same time, it is registered at most once, unless two commands that
\* had both truncated the file left the tail of one text behind the other.
NeverTwice == \A f \in {"app", "main"} : <<f>> \notin overlaid => IsInjective(sources[f].calls)

\* A module or a provider that was reported is called for in its source.  Two
\* reports are not true and say so here: a provider in a main.ts without
\* app.start( is only named in a comment (generate.ts:187-190), and one whose
\* identifier ends another's that is there is not wired at all, and reported
\* (generate.ts:154 and 215: `nural g item` after `nural g orderItem`).
Stands(f, c, r) ==
    LET n == r[2] IN
    \/ n \in ToSet(c.calls)
    \/ f = "main" /\ c.text # "starts" /\ n \in c.notes
    \/ r \in overlooked /\ \E m \in ToSet(c.calls) \cup c.notes : n \in Mentions[m]

\* When no two commands overlapped and no write was cut, everything commands
\* reported is still there, whatever ran after them: files with their text,
\* registrations and the user's own text, and an integration's dependencies
\* and scripts.
SuccessIsComplete ==
    undisturbed /\ Busy = {} =>
        /\ hollow = {}
        /\ sources.app.text = "plain" /\ sources.main.text # "cut"
        /\ \A r \in reported :
            LET kind == r[1]  name == r[2] IN
            CASE kind = "resource" -> Stands("app", sources.app, r) /\ Wanted \subseteq files[name]
              [] kind = "provider" -> Stands("main", sources.main, r) /\ r \in granular
              [] kind \in Integrations ->
                    /\ Deps(kind) \cup DevDeps(kind) \subseteq sources.package.deps
                    /\ kind = "prisma-pg" => DbScripts \subseteq sources.package.scripts
                    /\ <<"integration", kind>> \in granular
              [] OTHER -> r \in granular

=============================================================================
