------------------------ MODULE MCConversationStore ------------------------
EXTENDS ConversationStore, TLC, SequencesExt

CONSTANTS f1, k1, k2, m0

MCFiles == {f1}
MCFileOf == [c \in Calls |-> f1]
MCConvs == {k1, k2}
MCMessages == Calls \cup {m0}

\* One conversation with one message: the cap of two is reached by two appends.
MCInitialStore ==
  [f \in MCFiles |->
     k1 :> [mode |-> "chat", title |-> "new", pinned |-> FALSE, messages |-> <<m0>>]]

Creating(k, mode, valid) == [kind |-> "create", conv |-> k, mode |-> mode, valid |-> valid]
Appending(k, role) == [kind |-> "append", conv |-> k, role |-> role]
Patching(k, title, pinned) ==
  [kind |-> "update", conv |-> k, title |-> title, pinned |-> pinned]
Deleting(k) == [kind |-> "delete", conv |-> k]

\* k1 is there from the start, k2 only once a call has created it.
MCOps ==
  <<Creating(k2, "chat", TRUE), Creating(k2, "group", FALSE),
    Appending(k1, "user"), Appending(k2, "assistant"),
    Patching(k1, TRUE, "on"), Patching(k1, FALSE, "off"),
    Deleting(k1)>>

CallSeq == SetToSeq(Calls)

Picks ==
  {pick \in [Calls -> DOMAIN MCOps] :
     \A i, j \in DOMAIN CallSeq : i < j => pick[CallSeq[i]] <= pick[CallSeq[j]]}

\* Every mixture of operations once: which call performs which makes no
\* difference, and so they are handed out in a fixed order.
MCWorkloads ==
  {w \in {[c \in Calls |-> MCOps[pick[c]]] : pick \in Picks} : FreshIds(w)}
=============================================================================
