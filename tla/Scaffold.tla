------------------------------ MODULE Scaffold ------------------------------
(***************************************************************************)
(* `nural new`: one directory built file by file, with no way back.  The   *)
(* directory itself is the only record that a project was begun, and the   *)
(* dependency installation and the Prisma client may fail without changing *)
(* what the command says at its end.                                       *)
(***************************************************************************)
EXTENDS Naturals, Sequences, SequencesExt, FiniteSets

CONSTANTS
    Creators,        \* shells that run `nural new` with one project name
    Answers,         \* what the prompts may return: [framework, integrations]
    MaxBreaks        \* bound: kills and failed writes

\* The prompts offer two frameworks and a list of integrations to tick
AnswersAssumption ==
    \A a \in Answers : a.framework \in {"express", "fastify"} /\ IsFiniteSet(a.integrations)
ASSUME AnswersAssumption

VARIABLES
    exists,          \* the project directory is there
    content,         \* part -> the answers it was rendered for, or Unwritten, Empty, Garbled
    installs,        \* which of "dependencies", "client" were installed
    creator,         \* shell -> [at, answers, todo]
    breaks,
    beganAlone       \* history: no `nural new` found another at work

scaffoldVars == <<exists, content, installs, creator, breaks, beganAlone>>

\* A part not written yet; one truncated and not filled; one text with the
\* tail of another behind it
Text(state) == [framework |-> state, integrations |-> {}]
Unwritten == Text("none")
Empty == Text("empty")
Garbled == Text("garbled")

\* One provider file for each integration that has one: all but "ws"
ProviderParts(a) == SetToSeq(a.integrations \ {"ws"})
HasPrisma(a) == "prisma-pg" \in a.integrations

\* What is written, in order; all but the directories are files
Parts(a) ==
    <<"package.json", "tsconfig.json", ".prettierrc", ".env", "directories", "sources">>
    \o (IF a.framework = "express" THEN <<"nural-env.d.ts">> ELSE <<>>)
    \o ProviderParts(a)
    \o (IF HasPrisma(a) THEN <<"schema.prisma">> ELSE <<>>)
AllParts == UNION {ToSet(Parts(a)) : a \in Answers}

ScaffoldInit ==
    /\ exists = FALSE
    /\ content = [p \in AllParts |-> Unwritten]
    /\ installs = {}
    /\ creator = [s \in Creators |-> [at |-> "idle", answers |-> Unwritten, todo |-> <<>>]]
    /\ breaks = 0
    /\ beganAlone = TRUE

Phase(s, at, todo) == creator' = [creator EXCEPT ![s].at = at, ![s].todo = todo]
Working == {s \in Creators : creator[s].at \notin {"idle", "ready", "failed", "refused"}}

NewUnchecked(s, a) ==
    /\ creator[s].at \in {"idle", "refused", "failed"}
    /\ creator' = [creator EXCEPT ![s] = [at |-> "mkdir", answers |-> a, todo |-> Parts(a)]]
    /\ beganAlone' = (beganAlone /\ (Working = {} \/ exists))
    /\ UNCHANGED <<exists, content, installs, breaks>>

\* The prompts, then the look at the directory; creating it is awaited
New(s, a) ==
    /\ creator[s].at \in {"idle", "refused", "failed"}
    /\ creator' = [creator EXCEPT ![s] =
        [at |-> IF exists THEN "refused" ELSE "mkdir", answers |-> a, todo |-> Parts(a)]]
    /\ beganAlone' = (beganAlone /\ (Working = {} \/ exists))
    /\ UNCHANGED <<exists, content, installs, breaks>>

MakeDirectory(s) ==
    /\ creator[s].at = "mkdir"
    /\ exists' = TRUE
    /\ Phase(s, "write", creator[s].todo)
    /\ UNCHANGED <<content, installs, breaks, beganAlone>>

NextPart(s) ==
    LET todo == creator[s].todo IN Phase(s, IF Len(todo) = 1 THEN "install" ELSE "write", Tail(todo))

\* fs.outputFile truncates the part and then fills it from its start
OpenPart(s) ==
    LET todo == creator[s].todo IN
    /\ creator[s].at = "write"
    /\ IF Head(todo) = "directories"
       THEN content' = [content EXCEPT !["directories"] = creator[s].answers] /\ NextPart(s)
       ELSE content' = [content EXCEPT ![Head(todo)] = Empty] /\ Phase(s, "fill", todo)
    /\ UNCHANGED <<exists, installs, breaks, beganAlone>>

\* Over the text of another creator, which may be the longer one
FillPart(s) ==
    LET p == Head(creator[s].todo)
        a == creator[s].answers
    IN
    /\ creator[s].at = "fill"
    /\ \E c \in IF content[p] \in {Empty, a} THEN {a} ELSE {a, Garbled} :
          content' = [content EXCEPT ![p] = c]
    /\ NextPart(s)
    /\ UNCHANGED <<exists, installs, breaks, beganAlone>>

\* Neither failure is more than a line on the screen
InstallAll(s) ==
    /\ creator[s].at = "install"
    /\ \E ok \in BOOLEAN : installs' = IF ok THEN installs \cup {"dependencies"} ELSE installs
    /\ Phase(s, IF HasPrisma(creator[s].answers) THEN "client" ELSE "ready", <<>>)
    /\ UNCHANGED <<exists, content, breaks, beganAlone>>

PrismaGenerate(s) ==
    /\ creator[s].at = "client"
    /\ \E ok \in BOOLEAN :
        /\ ok => "dependencies" \in installs
        /\ installs' = IF ok THEN installs \cup {"client"} ELSE installs
    /\ Phase(s, "ready", <<>>)
    /\ UNCHANGED <<exists, content, breaks, beganAlone>>

\* A kill, or an error in the catch: exit 1, and the directory is left as it is
Breaks(s) ==
    /\ s \in Working
    /\ breaks < MaxBreaks
    /\ breaks' = breaks + 1
    /\ Phase(s, "failed", <<>>)
    /\ UNCHANGED <<exists, content, installs, beganAlone>>

\* The user removes the directory, which is what a rerun asks for
Clear ==
    /\ exists /\ Working = {}
    /\ \A s \in Creators : creator[s].at # "ready"
    /\ exists' = FALSE
    /\ content' = [p \in AllParts |-> Unwritten]
    /\ installs' = {}
    /\ UNCHANGED <<creator, breaks, beganAlone>>

ScaffoldNext ==
    \/ \E s \in Creators :
        \/ \E a \in Answers : New(s, a)
        \/ MakeDirectory(s) \/ OpenPart(s) \/ FillPart(s)
        \/ InstallAll(s) \/ PrismaGenerate(s) \/ Breaks(s)
    \/ Clear

ScaffoldSpec == ScaffoldInit /\ [][ScaffoldNext]_scaffoldVars

(***************************************************************************)
(* Properties                                                              *)
(***************************************************************************)
\* A project that was announced as ready has every file its answers call for,
\* rendered for these answers, and keeps them whatever later commands do:
\* "fails instead of clobbering an existing directory" (scaffold.spec.ts:109).
\* Two commands that both looked before either made the directory mix theirs.
ReadyIsComplete ==
    \A s \in Creators :
        creator[s].at = "ready" =>
            \A p \in ToSet(Parts(creator[s].answers)) :
                /\ content[p] # Unwritten
                /\ beganAlone => content[p] = creator[s].answers
=============================================================================
