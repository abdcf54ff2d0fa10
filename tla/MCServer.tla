------------------------------ MODULE MCServer ------------------------------
(***************************************************************************)
(* The components of the server that are checked one at a time, as one     *)
(* state machine: the first state says which component moves, and the      *)
(* others stand still.                                                     *)
(***************************************************************************)
EXTENDS WorkflowRun, PromptAssembly, SpeakerPrefix, PersonaMemory, KnowledgeStore, Chunker,
        ObservabilityLog, DataMigration, Settings

CONSTANTS
  Parts,            \* the components to check
  t1, t2,           \* conversations of PersonaMemory
  per1, per2, per3  \* and the personas in their casts

VARIABLE part  \* the component that moves

\* What the constants of the components stand for.
MCName == <<"n", "m">>
MCWords(k) == [1 .. k -> {"n", "m", "x", ":", "("}]
MCReplies ==
  {<<"n", "m">> \o w : w \in MCWords(3)} \cup {<<"(", "n", "m", ")">> \o w : w \in MCWords(2)} \cup MCWords(3)
    \cup {<<" ", "n", "m", ":", "x", "x", "x">>, <<"n", "m", ":", "x">>}
MCMemoryCast == (t1 :> <<per1, per2>>) @@ (t2 :> <<per2, per3>>)
MCDrafts == {Provider("u1", "m", "x", 2), Provider("", "m", "x", KeyMissing), Provider("u1", "m", "", 1)}
MCDimension == ("m1" :> 2) @@ ("m2" :> 3)
-----------------------------------------------------------------------------
MCInit ==
  /\ part \in Parts
  /\ RunInit
  /\ PromptInit
  /\ PrefixInit
  /\ MemoryInit
  /\ KnowledgeInit
  /\ ChunkerInit
  /\ LogInit
  /\ MigrationInit /\ (part # "migration" => \A f \in StoreFiles : migFile[f] = Store("old", 0))
  /\ SettingsInit

\* All but the component that moves stand still.
Frame ==
  /\ UNCHANGED part
  /\ part # "run" => UNCHANGED runVars
  /\ part # "prompt" => UNCHANGED promptVars
  /\ part # "prefix" => UNCHANGED prefixVars
  /\ part # "memory" => UNCHANGED memoryVars
  /\ part # "knowledge" => UNCHANGED knowledgeVars
  /\ part # "chunker" => UNCHANGED chunkerVars
  /\ part # "log" => UNCHANGED logVars
  /\ part # "migration" => UNCHANGED migVars
  /\ part # "settings" => UNCHANGED settingsVars

RunMoves == part = "run" /\ RunNext /\ Frame
PromptMoves == part = "prompt" /\ PromptNext /\ Frame
PrefixMoves == part = "prefix" /\ PrefixNext /\ Frame
MemoryMoves == part = "memory" /\ MemoryNext /\ Frame
KnowledgeMoves == part = "knowledge" /\ KnowledgeNext /\ Frame
ChunkerMoves == part = "chunker" /\ ChunkerNext /\ Frame
LogMoves == part = "log" /\ LogNext /\ Frame
MigrationMoves == part = "migration" /\ MigrationNext /\ Frame
SettingsMoves == part = "settings" /\ SettingsNext /\ Frame

MCNext ==
  \/ RunMoves \/ PromptMoves \/ PrefixMoves \/ MemoryMoves \/ KnowledgeMoves
  \/ ChunkerMoves \/ LogMoves \/ MigrationMoves \/ SettingsMoves

MCSpec ==
  MCInit /\ [][MCNext]_<<part, runVars, promptVars, prefixVars, memoryVars, knowledgeVars,
    chunkerVars, logVars, migVars, settingsVars>>
=============================================================================
