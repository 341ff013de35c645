---------------------------- MODULE VersionHistory ----------------------------
(***************************************************************************)
(* What readers of a document are promised: its versions are a list that    *)
(* only grows, and a version never reads differently.                       *)
(***************************************************************************)
EXTENDS Sequences

CONSTANT Texts      \* everything an author or an agent may write

VARIABLE versions   \* the text of each version, oldest first

Init == versions = <<>>

AddVersion(text) == versions' = Append(versions, text)

Next == \E text \in Texts : AddVersion(text)

Spec == Init /\ [][Next]_versions
=============================================================================
