------------------------------ MODULE CliTools ------------------------------
(***************************************************************************)
(* `nural routes`, `docs` and `console` look into the application by       *)
(* writing a script beside it, running that with tsx and deleting it in a  *)
(* finally block; `clean` deletes what killed ones left.  The names are    *)
(* fixed, so two tools in one project work on the same files.              *)
(***************************************************************************)
EXTENDS Naturals, Sequences, SequencesExt

CONSTANTS
    Tools,           \* shell -> "routes", "docs", "console" or "clean"
    MaxEdits,        \* bound: edits of the application
    MaxKills,        \* bound: tools killed
    MaxRuns          \* bound: tools started

Kinds == {"routes", "docs", "console", "clean"}
ToolsAssumption == \A s \in DOMAIN Tools : Tools[s] \in Kinds
ASSUME ToolsAssumption

VARIABLES
    app,             \* version of the application's sources
    loads,           \* whether src/app.ts can be imported at present
    scratch,         \* temporary file -> the version it holds, or Gone
    tool,            \* shell -> [at, since, version, todo]
    shown,           \* what `routes` printed last: [since, version]
    kills, runs,
    crossed          \* history: two `routes` were at work at once

toolVars == <<app, loads, scratch, tool, shown, kills, runs, crossed>>

\* Versions begin with 1, which a script, that has none, is given as well
Gone == 0
Script(kind) == CASE kind = "routes" -> ".nural-routes.ts"
                  [] kind = "docs" -> ".nural-gen-docs.ts"
                  [] kind = "console" -> ".nural-console.ts"
Data == ".nural-routes-data.json"
Temporary == <<".nural-routes.ts", Data, ".nural-console.ts", ".nural-gen-docs.ts">>

\* What the finally block, or clean, goes through in turn
Leftovers(kind) == CASE kind = "clean" -> Temporary
                     [] kind = "routes" -> <<Script(kind), Data>>
                     [] OTHER -> <<Script(kind)>>

There(f) == scratch[f] # Gone
Idle == [at |-> "idle", since |-> 0, version |-> 0, todo |-> <<>>]

ToolsInit ==
    /\ app = 1 /\ loads = TRUE
    /\ scratch = [f \in ToSet(Temporary) |-> Gone]
    /\ tool = [s \in DOMAIN Tools |-> Idle]
    /\ shown = [since |-> 0, version |-> 0]
    /\ kills = 0 /\ runs = 0
    /\ crossed = FALSE

\* The first file of the list that is there is about to be deleted; the look
\* and the deletion are apart.  Nothing there: the command ends.
Onward(s, todo) ==
    LET there == {i \in DOMAIN todo : There(todo[i])} IN
    tool' = [tool EXCEPT ![s] =
        IF there = {} THEN Idle
        ELSE [@ EXCEPT !.at = "unlink", !.todo = SubSeq(todo, Min(there), Len(todo))]]
Finally(s) == Onward(s, Leftovers(Tools[s]))

Run(s) ==
    /\ tool[s] = Idle
    /\ runs < MaxRuns
    /\ runs' = runs + 1
    /\ crossed' = (crossed \/ \E t \in DOMAIN Tools :
                             Tools[s] = "routes" /\ Tools[t] = "routes" /\ tool[t] # Idle)
    /\ IF Tools[s] = "clean"
       THEN Finally(s)
       ELSE tool' = [tool EXCEPT ![s] = [Idle EXCEPT !.at = "script", !.since = app]]
    /\ UNCHANGED <<app, loads, scratch, shown, kills>>

WriteScript(s) ==
    /\ tool[s].at = "script"
    /\ scratch' = [scratch EXCEPT ![Script(Tools[s])] = 1]
    /\ tool' = [tool EXCEPT ![s].at = "load"]
    /\ UNCHANGED <<app, loads, shown, kills, runs, crossed>>

\* tsx reads the script and the application; a script deleted meanwhile, or an
\* application that does not load, makes it exit with an error
LoadApp(s) ==
    /\ tool[s].at = "load"
    /\ IF There(Script(Tools[s])) /\ loads
       THEN tool' = [tool EXCEPT ![s].at = "dump", ![s].version = app]
       ELSE Finally(s)
    /\ UNCHANGED <<app, loads, scratch, shown, kills, runs, crossed>>

\* The script's output: the route data, which `routes` looks for before it
\* reads them, or the OpenAPI file, which no command reads
DumpRoutes(s) ==
    /\ tool[s].at = "dump" /\ Tools[s] = "routes"
    /\ scratch' = [scratch EXCEPT ![Data] = tool[s].version]
    /\ tool' = [tool EXCEPT ![s].at = "look"]
    /\ UNCHANGED <<app, loads, shown, kills, runs, crossed>>

DumpSpec(s) ==
    /\ tool[s].at = "dump" /\ Tools[s] = "docs"
    /\ Finally(s)
    /\ UNCHANGED <<app, loads, scratch, shown, kills, runs, crossed>>

ReplEnds(s) ==
    /\ tool[s].at = "dump" /\ Tools[s] = "console"
    /\ Finally(s)
    /\ UNCHANGED <<app, loads, scratch, shown, kills, runs, crossed>>

LookForData(s) ==
    /\ tool[s].at = "look"
    /\ IF There(Data) THEN tool' = [tool EXCEPT ![s].at = "read"] ELSE Finally(s)
    /\ UNCHANGED <<app, loads, scratch, shown, kills, runs, crossed>>

ReadData(s) ==
    /\ tool[s].at = "read"
    /\ shown' = IF There(Data) THEN [since |-> tool[s].since, version |-> scratch[Data]] ELSE shown
    /\ Finally(s)
    /\ UNCHANGED <<app, loads, scratch, kills, runs, crossed>>

UnlinkFirstOnly(s) ==
    /\ tool[s].at = "unlink"
    /\ scratch' = [scratch EXCEPT ![Head(tool[s].todo)] = Gone]
    /\ tool' = [tool EXCEPT ![s] = Idle]
    /\ UNCHANGED <<app, loads, shown, kills, runs, crossed>>

\* unlink of a file another tool deleted first throws, and ends the finally
\* block where it is; clean's remove does not mind
Unlink(s) ==
    LET f == Head(tool[s].todo) IN
    /\ tool[s].at = "unlink"
    /\ scratch' = [scratch EXCEPT ![f] = Gone]
    /\ IF There(f) \/ Tools[s] = "clean"
       THEN tool' = [tool EXCEPT ![s].at = "next", ![s].todo = Tail(@)]
       ELSE tool' = [tool EXCEPT ![s] = Idle]
    /\ UNCHANGED <<app, loads, shown, kills, runs, crossed>>

NextFile(s) ==
    /\ tool[s].at = "next"
    /\ Onward(s, tool[s].todo)
    /\ UNCHANGED <<app, loads, scratch, shown, kills, runs, crossed>>

Killed(s) ==
    /\ tool[s] # Idle
    /\ kills < MaxKills
    /\ kills' = kills + 1
    /\ tool' = [tool EXCEPT ![s] = Idle]
    /\ UNCHANGED <<app, loads, scratch, shown, runs, crossed>>

EditApp ==
    /\ app < MaxEdits
    /\ app' = app + 1
    /\ loads' \in BOOLEAN
    /\ UNCHANGED <<scratch, tool, shown, kills, runs, crossed>>

ToolsNext ==
    \/ \E s \in DOMAIN Tools :
        \/ Run(s) \/ WriteScript(s) \/ LoadApp(s) \/ DumpRoutes(s) \/ DumpSpec(s) \/ ReplEnds(s)
        \/ LookForData(s) \/ ReadData(s) \/ Unlink(s) \/ NextFile(s) \/ Killed(s)
    \/ EditApp

ToolsSpec == ToolsInit /\ [][ToolsNext]_toolVars

(***************************************************************************)
(* Properties                                                              *)
(***************************************************************************)
\* The routes printed are the application's since the command was typed, never
\* those of a data file an earlier, killed run left in the project (a second
\* `routes` at work at the same time may still put in older ones); and unless a
\* tool was killed, tools that end leave no file behind, even when several run
\* at once and delete one another's.
RoutesAreFresh == ~crossed => shown.version >= shown.since
NothingLeftBehind ==
    kills = 0 /\ (\A s \in DOMAIN Tools : tool[s] = Idle) => \A f \in ToSet(Temporary) : ~There(f)
ScratchFilesDoNotMislead == RoutesAreFresh /\ NothingLeftBehind
=============================================================================
