-------------------------------- MODULE MCCli --------------------------------
(***************************************************************************)
(* TLC instance for the command line tool: a behaviour is about generating *)
(* code in one project, about creating a project, or about the tools that  *)
(* look into one; `part` says which.                                       *)
(***************************************************************************)
EXTENDS Codegen, Scaffold, CliTools

CONSTANT CliParts

VARIABLE part
cliVars == <<part, codegenVars, scaffoldVars, toolVars>>

\* "itemModule" is the end of "orderitemModule"; "Item" and "item" are one file
MCFileName ==
    ("item" :> "item") @@ ("Item" :> "item") @@ ("orderItem" :> "orderitem") @@ ("user" :> "user")
MCMentions == ("item" :> {}) @@ ("orderitem" :> {"item"}) @@ ("user" :> {})
Typed(command, schematic, name) == [command |-> command, schematic |-> schematic, name |-> name]
MCArgs ==
    {Typed("generate", "resource", "Item"), Typed("generate", "resource", "orderItem"),
     Typed("generate", "item", None), Typed("generate", "user", None), Typed("generate", "provider", None),
     Typed("generate", "filter", "item"), Typed("generate", "module", "item"),
     Typed("add", None, "redis"), Typed("add", None, "prisma-pg"), Typed("add", None, "mysql")}
MCModuleFiles == <<"service", "module">>
MCInstalls == {{"service", "module"}, {"service"}}
MCMains == {Source("starts"), Source("plain"), NoFile}

MCAnswers ==
    {[framework |-> "express", integrations |-> {"ws", "prisma-pg"}],
     [framework |-> "fastify", integrations |-> {"redis"}]}

MCTools == (1 :> "routes") @@ (2 :> "routes") @@ (3 :> "clean") @@ (4 :> "docs") @@ (5 :> "console")

MCInit ==
    /\ part \in CliParts
    /\ CodegenInit /\ ScaffoldInit /\ ToolsInit
    /\ part # "codegen" =>
        /\ installed = CHOOSE i \in Installs : TRUE
        /\ sources.main = CHOOSE m \in Mains : TRUE

MCNext ==
    \/ part = "codegen" /\ CodegenNext /\ UNCHANGED <<part, scaffoldVars, toolVars>>
    \/ part = "new" /\ ScaffoldNext /\ UNCHANGED <<part, codegenVars, toolVars>>
    \/ part = "tools" /\ ToolsNext /\ UNCHANGED <<part, codegenVars, scaffoldVars>>

MCSpec == MCInit /\ [][MCNext]_cliVars
=============================================================================
