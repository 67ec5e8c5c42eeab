--------------------------- MODULE ConsumerProofs ---------------------------
(***************************************************************************)
(* Facts about a consumer's group, for the services that have one.         *)
(***************************************************************************)
EXTENDS Consumer, TLAPS

\* A poll, a dropped batch, a handled record and a new process keep the group's order, and end
\* its batch within the topic.
LEMMA GroupSteps ==
  ASSUME NEW g \in Group, OrderedGroup(g), NEW end \in Nat, g.limit <= end
  PROVE  /\ CanPoll(g, end) =>
              /\ Poll(g, end) \in Group
              /\ OrderedGroup(Poll(g, end))
              /\ Poll(g, end).limit <= end
              /\ Poll(g, end).next = g.next
         /\ CanPoll(g, end) =>
              /\ Dropped(g, end) \in Group
              /\ OrderedGroup(Dropped(g, end))
              /\ Dropped(g, end).limit <= end
              /\ Dropped(g, end).next = end
         /\ HasRecord(g) =>
              /\ Handled(g) \in Group
              /\ OrderedGroup(Handled(g))
              /\ Handled(g).limit <= end
              /\ Handled(g).next = g.next + 1
         /\ \A c \in Commits(g) :
              /\ Rejoined(g, c) \in Group
              /\ OrderedGroup(Rejoined(g, c))
              /\ Rejoined(g, c).limit <= end
              /\ Rejoined(g, c).next <= g.next
<1> USE DEF Group, OrderedGroup
<1>1. CanPoll(g, end) =>
        /\ Poll(g, end) \in Group
        /\ OrderedGroup(Poll(g, end))
        /\ Poll(g, end).limit <= end
        /\ Poll(g, end).next = g.next
  BY DEF CanPoll, Poll
<1>2. HasRecord(g) =>
        /\ Handled(g) \in Group
        /\ OrderedGroup(Handled(g))
        /\ Handled(g).limit <= end
        /\ Handled(g).next = g.next + 1
  <2>1. Handled(g) = [committed |-> g.committed, done |-> g.done,
                      next |-> g.next + 1, limit |-> g.limit]
    BY DEF Handled
  <2> QED
    BY <2>1 DEF HasRecord
<1>3. CanPoll(g, end) =>
        /\ Dropped(g, end) \in Group
        /\ OrderedGroup(Dropped(g, end))
        /\ Dropped(g, end).limit <= end
        /\ Dropped(g, end).next = end
  BY DEF CanPoll, Dropped
<1>4. ASSUME NEW c \in Commits(g)
      PROVE  /\ Rejoined(g, c) \in Group
             /\ OrderedGroup(Rejoined(g, c))
             /\ Rejoined(g, c).limit <= end
             /\ Rejoined(g, c).next <= g.next
  <2>1. c \in Nat /\ g.committed <= c /\ c <= g.next
    BY DEF Commits
  <2> QED
    BY <2>1 DEF Rejoined
<1> QED
  BY <1>1, <1>2, <1>3, <1>4

\* A new group is in order.
LEMMA NewGroupOrdered ==
  /\ NewGroup \in Group /\ OrderedGroup(NewGroup)
  /\ NewGroup.limit = 0 /\ NewGroup.next = 0
  BY DEF NewGroup, Group, OrderedGroup
=============================================================================
