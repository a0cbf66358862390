---------------------------- MODULE MCLspSession ----------------------------
(***************************************************************************)
(* Servers for model checking LspSession.                                  *)
(***************************************************************************)
EXTENDS LspSession, TLC

CONSTANTS d1, d2, d3, k1, k2

Announces(change, provides) == [openClose |-> TRUE, change |-> change, provides |-> provides]

Everything == Commands \cup Slots \cup {"Resolve"}

\* A server that follows the documents as the client prefers, one that takes whole texts, and one
\* that wants to hear of nothing.
SyncServers ==
  {Announces("Incremental", Commands), Announces("Full", {}), Announces("None", {}),
   [openClose |-> FALSE, change |-> "None", provides |-> {}]}

FullServer == {Announces("Incremental", Everything)}

\* Bound: two edits of a document, and requests at all, only on a first connection that has
\* published nothing.
OneTopic ==
  \/ issued = 0 /\ \A d \in Docs : rev[d] < 2
  \/ connection = 1 /\ inbox = <<>> /\ shown = Nothing /\ server.change = "Incremental"

\* Documents and files are told apart by nothing else.
Alike == Permutations(Docs) \cup Permutations(Keys)
=============================================================================
