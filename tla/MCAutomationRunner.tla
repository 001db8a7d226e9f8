------------------------ MODULE MCAutomationRunner ------------------------
(* Two journeys of one, two or three nodes and the bounds of the cfg.       *)
EXTENDS AutomationRunner, TLC

CONSTANT Texts

MCKind == [welcome |-> "email", wait |-> "wait", ordered |-> "condition", offer |-> "email"]
MCWorkflows == {<<"welcome", "wait", "offer">>, <<"welcome", "ordered", "offer">>}
MCAttempts == [s \in Sources |-> IF s = "listener" THEN 2 ELSE 1]
MCContents == Texts \union {Missing}
Symmetry == Permutations(Workers) \union Permutations(Texts)
=============================================================================
