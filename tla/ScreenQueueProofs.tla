-------------------------- MODULE ScreenQueueProofs --------------------------
(***************************************************************************)
(* Machine-checked proofs about module ScreenQueue, for any number of      *)
(* slots and priorities: the lists stay whole, and where the application   *)
(* leaves a greeting on the screen nothing is freed twice or shown after   *)
(* it was freed.                                                           *)
(*                                                                         *)
(* That a list ends is an induction along its links.  It is done here with *)
(* sets: a chain is the least set closed under `next`, and a finite set    *)
(* that `next` maps into itself one-to-one has no member left over to be   *)
(* its head.                                                               *)
(***************************************************************************)
EXTENDS ScreenQueue, FiniteSetTheorems, TLAPS

(* The first of a set of numbers. *)

LessThan == {p \in Nat \X Nat : p[1] < p[2]}

\* What CHOOSE finds in get_free_msg and get_next_disp_msg.
LEMMA LeastNumber ==
  ASSUME NEW N \in SUBSET Nat, N # {}
  PROVE  \E n \in N : \A k \in N : n <= k
<1>1. IsWellFoundedOn(LessThan, Nat)
  BY NatLessThanWellFounded DEF LessThan, OpToRel
<1>2. PICK n \in N : \A k \in N : <<k, n>> \notin LessThan
  BY <1>1, WFMin
<1>3. ASSUME NEW k \in N  PROVE n <= k
  <2>1. k \in Nat /\ n \in Nat
    OBVIOUS
  <2>2. <<k, n>> \in Nat \X Nat /\ <<k, n>>[1] = k /\ <<k, n>>[2] = n
    BY <2>1
  <2>3. k < n => <<k, n>> \in LessThan
    BY <2>2 DEF LessThan
  <2>. QED
    BY <1>2, <2>1, <2>3
<1>. QED
  BY <1>3

\* A priority stays one, counted round, and a small number is its own remainder.
LEMMA Round ==
  ASSUME NEW n \in Nat
  PROVE  /\ n % MAX_MSG_PRIORITY \in Priorities
         /\ n \in Priorities => n % MAX_MSG_PRIORITY = n
<1>. DEFINE b == MAX_MSG_PRIORITY
            d == n \div b
            r == n % b
<1>1. b \in Nat \ {0} /\ Priorities = 0 .. b - 1
  BY SlotAssumption DEF Priorities
<1>. HIDE DEF b
<1>2. d \in Int /\ r \in 0 .. b - 1 /\ n = b * d + r
  BY <1>1
<1>. HIDE DEF d, r
<1>3. d >= 1 => b * d >= b
  BY <1>1, <1>2
<1>4. d <= -1 => b * d <= -b
  BY <1>1, <1>2
<1>5. n \in 0 .. b - 1 => d = 0
  BY <1>1, <1>2, <1>3, <1>4
<1>6. b * 0 = 0
  BY <1>1
<1>7. n \in 0 .. b - 1 => r = n
  BY <1>1, <1>2, <1>5, <1>6
<1>. QED
  BY <1>1, <1>2, <1>7 DEF b, r

-----------------------------------------------------------------------------
(* Chains. *)

LEMMA SlotFacts ==
  /\ Slots \subseteq Nat /\ NULL \notin Slots /\ IsFiniteSet(Slots)
  /\ Cardinality(Slots) = MAX_MSGS /\ MAX_MSGS \in 1 .. 254
  /\ Lowest \in Priorities /\ 0 \in Priorities
<1>1. MAX_MSGS \in Int /\ 1 \in Int
  BY SlotAssumption
<1>2. IsFiniteSet(Slots) /\ Cardinality(Slots) = MAX_MSGS
  <2>1. /\ IsFiniteSet(1 .. MAX_MSGS)
        /\ Cardinality(1 .. MAX_MSGS) = IF 1 > MAX_MSGS THEN 0 ELSE MAX_MSGS - 1 + 1
    BY <1>1, FS_Interval
  <2>2. MAX_MSGS - 1 + 1 = MAX_MSGS /\ ~(1 > MAX_MSGS)
    BY SlotAssumption
  <2>. QED
    BY <2>1, <2>2 DEF Slots
<1>. QED
  BY <1>2, SlotAssumption DEF Slots, NULL, Lowest, Priorities

\* Nothing that is closed under `next` and holds the head leaves out a member.
LEMMA InClosed ==
  ASSUME NEW l, NEW h, NEW S \in SUBSET Slots, Closed(l, h, S)
  PROVE  Chain(l, h) \subseteq S
BY DEF Chain

\* The linked slots of one priority are closed, so that the members of a chain
\* are linked and of the priority of its head.
LEMMA ChainLinked ==
  ASSUME NEW l, NEW U, Linked(l, U), NEW p \in Priorities
  PROVE  \A s \in Chain(l, l.message_queues[p]) : s \in U /\ l.priority[s] = p
<1>. DEFINE S == {s \in U : l.priority[s] = p}
<1>1. S \in SUBSET Slots
  BY DEF Linked
<1>2. Closed(l, l.message_queues[p], S)
  BY DEF Linked, Closed
<1>. HIDE DEF S
<1>3. Chain(l, l.message_queues[p]) \subseteq S
  BY <1>1, <1>2, InClosed
<1>. QED
  BY <1>3 DEF S

\* A chain is closed itself.
LEMMA ChainClosed ==
  ASSUME NEW l, NEW U, Linked(l, U), NEW p \in Priorities
  PROVE  Closed(l, l.message_queues[p], Chain(l, l.message_queues[p]))
<1>. DEFINE h == l.message_queues[p]
<1>1. h # NULL => h \in Chain(l, h)
  BY DEF Chain, Closed, Linked
<1>2. ASSUME NEW s \in Chain(l, h), l.next[s] # NULL  PROVE l.next[s] \in Chain(l, h)
  <2>1. s \in U
    BY ChainLinked
  <2>2. l.next[s] \in Slots
    BY <1>2, <2>1 DEF Linked
  <2>. QED
    BY <1>2, <2>2 DEF Chain, Closed
<1>. QED
  BY <1>1, <1>2 DEF Closed

\* A list that is not empty has an end for append_queue to find: else `next`
\* would map its members one-to-one to those that are not its head.
LEMMA ChainEnds ==
  ASSUME NEW l, NEW U, Linked(l, U), NEW p \in Priorities, l.message_queues[p] # NULL
  PROVE  Tails(l, l.message_queues[p]) # {}
<1>. DEFINE h == l.message_queues[p]
            C == Chain(l, h)
            f == [s \in C |-> l.next[s]]
<1>. SUFFICES ASSUME Tails(l, h) = {} PROVE FALSE
  OBVIOUS
<1>1. \A s \in C : l.next[s] # NULL
  BY DEF Tails
<1>2. /\ h \in C
      /\ \A s \in C : l.next[s] \in C
  BY <1>1, ChainClosed DEF Closed
<1>3. \A s \in C : s \in U /\ l.previous[l.next[s]] = s
  BY <1>1, ChainLinked DEF Linked
<1>4. C \subseteq Slots /\ l.previous[h] = NULL
  BY DEF Chain, Linked
<1>5. f \in [C -> C \ {h}]
  BY <1>2, <1>3, <1>4, SlotFacts
<1>6. IsFiniteSet(C) /\ Cardinality(C) \in Nat
  BY <1>4, SlotFacts, FS_Subset, FS_CardinalityType
<1>7. IsFiniteSet(C \ {h}) /\ Cardinality(C \ {h}) = Cardinality(C) - 1
  BY <1>2, <1>6, FS_RemoveElement
<1>8. \A s \in C : l.previous[f[s]] = s
  BY <1>3
<1>. HIDE DEF C, f
<1>9. Cardinality(C \ {h}) < Cardinality(C)
  BY <1>6, <1>7
<1>10. \E x, y \in C : x # y /\ f[x] = f[y]
  BY <1>5, <1>6, <1>7, <1>9, FS_PigeonHole
<1>. QED
  BY <1>8, <1>10

\* A linked slot lies in a list that is not empty.
LEMMA HasHead ==
  ASSUME NEW l, NEW U, Linked(l, U), NEW s \in U
  PROVE  l.message_queues[l.priority[s]] # NULL
<1>1. s \in Chain(l, l.message_queues[l.priority[s]])
  BY DEF Linked
<1>2. Closed(l, NULL, {})
  BY DEF Closed
<1>. QED
  BY <1>1, <1>2, InClosed

\* A slot with nothing before it is the head of its list.
LEMMA FirstIsHead ==
  ASSUME NEW l \in Queues, NEW U, Linked(l, U), NEW s \in U, l.previous[s] = NULL
  PROVE  l.message_queues[l.priority[s]] = s
<1>. DEFINE h == l.message_queues[l.priority[s]]
            C == Chain(l, h)
<1>1. s \in Slots /\ l.priority[s] \in Priorities
  BY DEF Linked, Queues
<1>. SUFFICES ASSUME h # s PROVE FALSE
  OBVIOUS
<1>2. \A x \in C : x \in U
  BY <1>1, ChainLinked
<1>3. ASSUME NEW x \in C, l.next[x] # NULL  PROVE l.next[x] # s
  <2>1. x \in U /\ x \in Slots
    BY <1>2 DEF Linked
  <2>2. l.previous[l.next[x]] = x /\ x # NULL
    BY <1>3, <2>1, SlotFacts DEF Linked
  <2>. QED
    BY <2>2
<1>4. Closed(l, h, C)
  BY <1>1, ChainClosed
<1>5. Closed(l, h, C \ {s})
  BY <1>3, <1>4 DEF Closed
<1>6. C \ {s} \in SUBSET Slots
  BY DEF Chain
<1>7. C \subseteq C \ {s}
  BY <1>5, <1>6, InClosed
<1>8. s \in C
  BY DEF Linked
<1>. QED
  BY <1>7, <1>8

\* No slot is the one after itself.
LEMMA NoLoop ==
  ASSUME NEW l \in Queues, NEW U, Linked(l, U), NEW s \in U
  PROVE  l.next[s] # s
<1>. SUFFICES ASSUME l.next[s] = s PROVE FALSE
  OBVIOUS
<1>. DEFINE h == l.message_queues[l.priority[s]]
            C == Chain(l, h)
<1>1. s \in Slots /\ s # NULL /\ l.priority[s] \in Priorities
  BY SlotFacts DEF Linked, Queues
<1>2. l.previous[s] = s
  BY <1>1 DEF Linked
<1>3. h # s
  BY <1>1, <1>2 DEF Linked
<1>4. \A x \in C : x \in U
  BY <1>1, ChainLinked
<1>5. \A x \in C : l.next[x] = s => x = s
  BY <1>1, <1>2, <1>4 DEF Linked
<1>6. Closed(l, h, C \ {s})
  BY <1>1, <1>3, <1>5, ChainClosed DEF Closed
<1>7. C \ {s} \in SUBSET Slots
  BY DEF Chain
<1>8. C \subseteq C \ {s}
  BY <1>6, <1>7, InClosed
<1>9. s \in C
  BY DEF Linked
<1>. QED
  BY <1>8, <1>9

-----------------------------------------------------------------------------
(* append_queue *)

\* What append_queue changes.
Appended(l, A, m, p, h) ==
  /\ A \in Queues
  /\ A.used = l.used /\ A.cycles_left = l.cycles_left /\ A.priority = l.priority
  /\ A.current_disp_msg = l.current_disp_msg /\ A.time_left_ms = l.time_left_ms
  /\ A.msg_count = (l.msg_count + 1) % 256
  /\ h = NULL =>
       /\ A.message_queues = [l.message_queues EXCEPT ![p] = m]
       /\ A.next = [l.next EXCEPT ![m] = NULL]
       /\ A.previous = [l.previous EXCEPT ![m] = NULL]
  /\ h # NULL => \E last \in Tails(l, h) :
       /\ A.message_queues = l.message_queues
       /\ A.next = [[l.next EXCEPT ![last] = m] EXCEPT ![m] = NULL]
       /\ A.previous = [l.previous EXCEPT ![m] = last]

LEMMA AppendQueueFields ==
  ASSUME NEW l \in Queues, NEW U, Linked(l, U), NEW m \in Slots
  PROVE  Appended(l, AppendQueue(l, m), m, l.priority[m], l.message_queues[l.priority[m]])
<1>. DEFINE p == l.priority[m]
            h == l.message_queues[p]
            A == AppendQueue(l, m)
            counted == [l EXCEPT !.msg_count = (@ + 1) % 256]
<1>1. p \in Priorities /\ m \in Pointers /\ NULL \in Pointers
  BY DEF Queues, Pointers
<1>2. (l.msg_count + 1) % 256 \in 0 .. 255
  BY DEF Queues
<1>3. CASE h = NULL
  <2>1. A = [counted EXCEPT !.message_queues[p] = m, !.previous[m] = NULL, !.next[m] = NULL]
    BY <1>3 DEF AppendQueue
  <2>2. A = [l EXCEPT !.msg_count = (l.msg_count + 1) % 256,
                      !.message_queues = [l.message_queues EXCEPT ![p] = m],
                      !.previous = [l.previous EXCEPT ![m] = NULL],
                      !.next = [l.next EXCEPT ![m] = NULL]]
    BY <2>1 DEF Queues
  <2>. HIDE DEF A, counted
  <2>3. A \in Queues
    BY <1>1, <1>2, <2>2 DEF Queues
  <2>4. /\ A.used = l.used /\ A.cycles_left = l.cycles_left /\ A.priority = l.priority
        /\ A.current_disp_msg = l.current_disp_msg /\ A.time_left_ms = l.time_left_ms
        /\ A.msg_count = (l.msg_count + 1) % 256
    BY <2>2 DEF Queues
  <2>5. /\ A.message_queues = [l.message_queues EXCEPT ![p] = m]
        /\ A.next = [l.next EXCEPT ![m] = NULL]
        /\ A.previous = [l.previous EXCEPT ![m] = NULL]
    BY <2>2 DEF Queues
  <2>6. Appended(l, A, m, p, h)
    BY <1>3, <2>3, <2>4, <2>5 DEF Appended
  <2>. QED
    BY <2>6 DEF A
<1>4. CASE h # NULL
  <2>1. Tails(l, h) # {}
    BY <1>1, <1>4, ChainEnds
  <2>. DEFINE last == CHOOSE s \in Tails(l, h) : TRUE
  <2>2. last \in Tails(l, h)
    BY <2>1
  <2>3. last \in Slots /\ last \in Pointers
    BY <2>2 DEF Tails, Chain, Pointers
  <2>4. A = [counted EXCEPT !.next = [@ EXCEPT ![last] = m, ![m] = NULL], !.previous[m] = last]
    BY <1>4 DEF AppendQueue
  <2>5. A = [l EXCEPT !.msg_count = (l.msg_count + 1) % 256,
                      !.next = [[l.next EXCEPT ![last] = m] EXCEPT ![m] = NULL],
                      !.previous = [l.previous EXCEPT ![m] = last]]
    BY <2>4 DEF Queues
  <2>. HIDE DEF last, A, counted
  <2>6. A \in Queues
    BY <1>1, <1>2, <2>3, <2>5 DEF Queues
  <2>7. Appended(l, A, m, p, h)
    BY <1>4, <2>2, <2>5, <2>6 DEF Queues, Appended
  <2>. QED
    BY <2>7 DEF A
<1>. QED
  BY <1>3, <1>4

\* It puts one more slot into the lists.
LEMMA AppendQueueLinks ==
  ASSUME NEW l \in Queues, NEW U, Linked(l, U), NEW m \in Slots, m \notin U
  PROVE  Linked(AppendQueue(l, m), U \cup {m})
<1>. DEFINE p == l.priority[m]
            h == l.message_queues[p]
            V == U \cup {m}
<1>. DEFINE A == AppendQueue(l, m)
<1>1. Appended(l, A, m, p, h)
  BY AppendQueueFields
<1>. SUFFICES Linked(A, V)
  OBVIOUS
<1>. HIDE DEF A
<1>2. p \in Priorities /\ m # NULL /\ U \subseteq Slots /\ NULL \notin Slots
  BY SlotFacts DEF Queues, Linked
<1>3. l.next[m] = NULL /\ l.previous[m] = NULL
  BY DEF Linked
<1>4. CASE h = NULL
  <2>1. /\ A.message_queues = [l.message_queues EXCEPT ![p] = m]
        /\ A.next = l.next /\ A.previous = l.previous /\ A.priority = l.priority
    BY <1>1, <1>3, <1>4 DEF Appended, Queues
  <2>2. \A s \in U : l.priority[s] # p
    BY <1>4, HasHead
  <2>3. ASSUME NEW s \in V, NEW S \in SUBSET Slots,
               Closed(A, A.message_queues[A.priority[s]], S)
        PROVE  s \in S
    <3>1. CASE s = m
      BY <1>2, <2>1, <2>3, <3>1 DEF Closed, Queues
    <3>2. CASE s \in U
      <4>1. A.message_queues[A.priority[s]] = l.message_queues[l.priority[s]]
        BY <2>1, <2>2, <3>2 DEF Queues
      <4>2. Closed(l, l.message_queues[l.priority[s]], S)
        BY <2>1, <2>3, <4>1 DEF Closed
      <4>. QED
        BY <3>2, <4>2 DEF Linked, Chain
    <3>. QED
      BY <3>1, <3>2
  <2>4. \A s \in V : s \in Chain(A, A.message_queues[A.priority[s]])
    BY <1>2, <2>3 DEF Chain
  <2>5. \A r \in Priorities : A.message_queues[r] = IF r = p THEN m ELSE l.message_queues[r]
    BY <1>2, <2>1 DEF Queues
  <2>. QED
    BY <1>2, <1>3, <2>1, <2>4, <2>5 DEF Linked
<1>5. CASE h # NULL
  <2>1. PICK last \in Tails(l, h) :
          /\ A.message_queues = l.message_queues
          /\ A.next = [[l.next EXCEPT ![last] = m] EXCEPT ![m] = NULL]
          /\ A.previous = [l.previous EXCEPT ![m] = last]
    BY <1>1, <1>5 DEF Appended
  <2>2. /\ last \in Chain(l, h) /\ last \in U /\ last \in Slots /\ last # m
        /\ l.priority[last] = p /\ l.next[last] = NULL
    BY <1>2, ChainLinked DEF Tails
  <2>3. A.priority = l.priority
    BY <1>1 DEF Appended
  <2>4. \A s \in Slots : /\ A.next[s] = IF s = last THEN m ELSE l.next[s]
                         /\ A.previous[s] = IF s = m THEN last ELSE l.previous[s]
    BY <1>3, <2>1, <2>2 DEF Queues
  <2>5. ASSUME NEW s \in V, NEW S \in SUBSET Slots,
               Closed(A, A.message_queues[A.priority[s]], S)
        PROVE  s \in S
    <3>. DEFINE g == l.message_queues[l.priority[s]]
                T == S \cap U
    <3>1. Closed(l, g, T)
      BY <1>2, <2>1, <2>2, <2>3, <2>4, <2>5 DEF Closed, Linked, Queues
    <3>2. T \in SUBSET Slots
      OBVIOUS
    <3>. HIDE DEF T
    <3>3. CASE s \in U
      BY <3>1, <3>2, <3>3 DEF Linked, Chain, T
    <3>4. CASE s = m
      <4>1. last \in T
        BY <2>2, <3>1, <3>2, <3>4, InClosed
      <4>2. A.next[last] = m /\ last \in S
        BY <2>2, <2>4, <4>1 DEF T
      <4>. QED
        BY <1>2, <2>5, <3>4, <4>2 DEF Closed
    <3>. QED
      BY <3>3, <3>4
  <2>6. \A s \in V : s \in Chain(A, A.message_queues[A.priority[s]])
    BY <1>2, <2>5 DEF Chain
  <2>. QED
    BY <1>2, <1>3, <2>1, <2>2, <2>3, <2>4, <2>6 DEF Linked
<1>. QED
  BY <1>4, <1>5

-----------------------------------------------------------------------------
(* pop_queue_msg *)

LEMMA PopQueueMsgFields ==
  ASSUME NEW l \in Queues, NEW m \in Slots
  PROVE  LET A == PopQueueMsg(l, m)
             p == l.priority[m]
         IN /\ A \in Queues
            /\ A.used = l.used /\ A.cycles_left = l.cycles_left /\ A.priority = l.priority
            /\ A.current_disp_msg = l.current_disp_msg /\ A.time_left_ms = l.time_left_ms
            /\ A.msg_count = (l.msg_count - 1) % 256
            /\ \A r \in Priorities : A.message_queues[r] =
                 IF r = p /\ l.message_queues[p] = m THEN l.next[m] ELSE l.message_queues[r]
            /\ \A s \in Slots : A.next[s] =
                 IF s = m THEN NULL ELSE IF s = l.previous[m] THEN l.next[m] ELSE l.next[s]
            /\ \A s \in Slots : A.previous[s] =
                 IF s = m THEN NULL ELSE IF s = l.next[m] THEN l.previous[m] ELSE l.previous[s]
<1>. DEFINE A == PopQueueMsg(l, m)
            p == l.priority[m]
            queues == [l.message_queues EXCEPT ![p] = IF @ = m THEN l.next[m] ELSE @]
            nxt == [s \in Slots |-> IF s = m THEN NULL
                                    ELSE IF s = l.previous[m] THEN l.next[m] ELSE l.next[s]]
            prv == [s \in Slots |-> IF s = m THEN NULL
                                    ELSE IF s = l.next[m] THEN l.previous[m] ELSE l.previous[s]]
<1>1. A = [l EXCEPT !.msg_count = (l.msg_count - 1) % 256, !.message_queues = queues,
                    !.next = nxt, !.previous = prv]
  BY DEF PopQueueMsg, Queues
<1>2. /\ p \in Priorities /\ NULL \in Pointers /\ l.next[m] \in Pointers
      /\ l.previous[m] \in Pointers /\ (l.msg_count - 1) % 256 \in 0 .. 255
  BY DEF Queues, Pointers
<1>3. /\ queues \in [Priorities -> Pointers]
      /\ nxt \in [Slots -> Pointers] /\ prv \in [Slots -> Pointers]
  BY <1>2 DEF Queues
<1>4. \A r \in Priorities : queues[r] =
        IF r = p /\ l.message_queues[p] = m THEN l.next[m] ELSE l.message_queues[r]
  BY <1>2 DEF Queues
<1>. HIDE DEF A, queues
<1>5. A \in Queues
  BY <1>1, <1>2, <1>3 DEF Queues
<1>6. /\ A.used = l.used /\ A.cycles_left = l.cycles_left /\ A.priority = l.priority
      /\ A.current_disp_msg = l.current_disp_msg /\ A.time_left_ms = l.time_left_ms
      /\ A.msg_count = (l.msg_count - 1) % 256
  BY <1>1 DEF Queues
<1>7. A.message_queues = queues /\ A.next = nxt /\ A.previous = prv
  BY <1>1 DEF Queues
<1>8. \A s \in Slots : A.next[s] =
        IF s = m THEN NULL ELSE IF s = l.previous[m] THEN l.next[m] ELSE l.next[s]
  BY <1>7
<1>9. \A s \in Slots : A.previous[s] =
        IF s = m THEN NULL ELSE IF s = l.next[m] THEN l.previous[m] ELSE l.previous[s]
  BY <1>7
<1>. QED
  BY <1>4, <1>5, <1>6, <1>7, <1>8, <1>9 DEF A

\* It takes one slot out of the lists, and does no harm to one that is in none.
LEMMA PopQueueMsgLinks ==
  ASSUME NEW l \in Queues, NEW U, Linked(l, U), NEW m \in Slots
  PROVE  Linked(PopQueueMsg(l, m), U \ {m})
<1>. DEFINE p == l.priority[m]
            before == l.previous[m]
            after == l.next[m]
            V == U \ {m}
<1>. DEFINE A == PopQueueMsg(l, m)
<1>1. /\ A \in Queues /\ A.priority = l.priority
      /\ \A r \in Priorities : A.message_queues[r] =
           IF r = p /\ l.message_queues[p] = m THEN after ELSE l.message_queues[r]
      /\ \A s \in Slots : A.next[s] =
           IF s = m THEN NULL ELSE IF s = before THEN after ELSE l.next[s]
      /\ \A s \in Slots : A.previous[s] =
           IF s = m THEN NULL ELSE IF s = after THEN before ELSE l.previous[s]
  BY PopQueueMsgFields
<1>. SUFFICES Linked(A, V)
  OBVIOUS
<1>. HIDE DEF A
<1>2. p \in Priorities /\ m # NULL /\ U \subseteq Slots /\ NULL \notin Slots
  BY SlotFacts DEF Queues, Linked
<1>3. CASE m \notin U
  <2>1. after = NULL /\ before = NULL /\ l.message_queues[p] # m
    BY <1>2, <1>3 DEF Linked
  <2>2. /\ \A r \in Priorities : A.message_queues[r] = l.message_queues[r]
        /\ \A s \in Slots : A.next[s] = l.next[s] /\ A.previous[s] = l.previous[s]
        /\ V = U
    BY <1>1, <1>2, <1>3, <2>1
  <2>3. ASSUME NEW s \in U  PROVE s \in Chain(A, A.message_queues[A.priority[s]])
    <3>1. s \in Slots /\ l.priority[s] \in Priorities
      BY <1>2 DEF Queues
    <3>2. s \in Chain(l, l.message_queues[l.priority[s]])
      BY DEF Linked
    <3>. QED
      BY <1>1, <2>2, <3>1, <3>2 DEF Chain, Closed
  <2>. QED
    BY <1>1, <1>2, <2>2, <2>3 DEF Linked
<1>4. CASE m \in U
  <2>1. /\ after # NULL => /\ after \in U /\ after \in Slots /\ l.previous[after] = m
                          /\ l.priority[after] = p
        /\ before # NULL => /\ before \in U /\ before \in Slots /\ l.next[before] = m
                           /\ l.priority[before] = p
        /\ after # m /\ before # m
    BY <1>2, <1>4, NoLoop DEF Linked
  <2>2. before = NULL <=> l.message_queues[p] = m
    BY <1>2, <1>4, FirstIsHead DEF Linked
  <2>3. ASSUME NEW s \in V, NEW S \in SUBSET Slots,
               Closed(A, A.message_queues[A.priority[s]], S)
        PROVE  s \in S
    <3>. DEFINE r == l.priority[s]
                g == l.message_queues[r]
    <3>1. r \in Priorities /\ s \in U /\ s \in Slots /\ s # m
      BY <1>2 DEF Queues
    <3>2. Closed(A, A.message_queues[r], S)
      BY <1>1, <2>3
    <3>3. \A x \in U : x \in Slots
      BY <1>2
    <3>4. CASE r # p
      <4>. DEFINE T == {x \in S \cap U : l.priority[x] = r}
      <4>1. Closed(l, g, T)
        BY <1>1, <1>2, <2>1, <3>1, <3>2, <3>3, <3>4 DEF Closed, Linked
      <4>2. T \in SUBSET Slots
        OBVIOUS
      <4>. HIDE DEF T
      <4>3. s \in T
        BY <3>1, <4>1, <4>2 DEF Linked, Chain
      <4>. QED
        BY <4>3 DEF T
    <3>5. CASE r = p
      <4>. DEFINE T == {x \in U : IF x = m THEN before = NULL \/ before \in S ELSE x \in S}
      <4>1. g # NULL => g \in T
        <5>1. g # NULL => g \in U
          BY <3>1 DEF Linked
        <5>2. g = m => before = NULL
          BY <2>2, <3>5
        <5>3. g # NULL /\ g # m => g \in S
          BY <1>1, <3>1, <3>2, <3>5 DEF Closed
        <5>. QED
          BY <5>1, <5>2, <5>3
      <4>2. ASSUME NEW x \in T, l.next[x] # NULL  PROVE l.next[x] \in T
        <5>1. x \in U /\ x \in Slots /\ l.next[x] \in U /\ l.previous[l.next[x]] = x
          BY <1>2, <4>2 DEF Linked
        <5>2. CASE x = m
          <6>1. CASE before = NULL
            BY <1>1, <2>1, <2>2, <3>1, <3>2, <3>5, <4>2, <5>1, <5>2, <6>1 DEF Closed
          <6>2. CASE before # NULL
            <7>1. before \in S /\ A.next[before] = after
              BY <1>1, <1>2, <2>1, <4>2, <5>1, <5>2, <6>2, <3>1
            <7>. QED
              BY <3>2, <4>2, <5>1, <5>2, <7>1 DEF Closed
          <6>. QED
            BY <6>1, <6>2
        <5>3. CASE x # m
          <6>1. x \in S
            BY <5>3
          <6>2. CASE l.next[x] = m
            BY <1>4, <5>1, <6>1, <6>2
          <6>3. CASE l.next[x] # m
            <7>1. A.next[x] = l.next[x]
              BY <1>1, <1>2, <2>1, <5>1, <5>3, <6>3
            <7>. QED
              BY <3>2, <4>2, <5>1, <6>1, <7>1 DEF Closed
          <6>. QED
            BY <6>2, <6>3
        <5>. QED
          BY <5>2, <5>3
      <4>3. Closed(l, g, T) /\ T \in SUBSET Slots
        BY <1>2, <4>1, <4>2 DEF Closed
      <4>. HIDE DEF T
      <4>4. s \in T
        BY <3>1, <4>3 DEF Linked, Chain
      <4>. QED
        BY <3>1, <4>4 DEF T
    <3>. QED
      BY <3>4, <3>5
  <2>4. \A s \in V : s \in Chain(A, A.message_queues[A.priority[s]])
    BY <1>2, <2>3 DEF Chain
  <2>5. \A s \in V : A.next[s] # NULL =>
          /\ A.next[s] \in V
          /\ A.previous[A.next[s]] = s /\ A.priority[A.next[s]] = A.priority[s]
    BY <1>1, <1>2, <1>4, <2>1 DEF Linked
  <2>6. \A s \in V : A.previous[s] # NULL =>
          A.previous[s] \in V /\ A.next[A.previous[s]] = s
    BY <1>1, <1>2, <1>4, <2>1 DEF Linked
  <2>7. \A r \in Priorities : A.message_queues[r] # NULL =>
          /\ A.message_queues[r] \in V /\ A.priority[A.message_queues[r]] = r
          /\ A.previous[A.message_queues[r]] = NULL
    BY <1>1, <1>2, <1>4, <2>1, <2>2 DEF Linked
  <2>8. \A s \in Slots \ V : A.next[s] = NULL /\ A.previous[s] = NULL
    BY <1>1, <1>2, <1>4, <2>1 DEF Linked
  <2>. QED
    BY <1>2, <2>4, <2>5, <2>6, <2>7, <2>8 DEF Linked
<1>. QED
  BY <1>3, <1>4

-----------------------------------------------------------------------------
(* insert_queue_next *)

\* What insert_queue_next changes.
Inserted(l, A, m, cur) ==
  /\ A \in Queues
  /\ A.used = l.used /\ A.cycles_left = l.cycles_left
  /\ A.current_disp_msg = cur /\ A.time_left_ms = l.time_left_ms
  /\ \A s \in Slots : A.priority[s] =
       IF s = m /\ cur # NULL THEN l.priority[cur] ELSE l.priority[s]
  /\ cur # NULL =>
       /\ A.message_queues = l.message_queues
       /\ \A s \in Slots : A.next[s] =
            IF s = cur THEN m ELSE IF s = m THEN l.next[cur] ELSE l.next[s]
       /\ cur # m => \A s \in Slots : A.previous[s] =
            IF s = l.next[cur] THEN m ELSE IF s = m THEN cur ELSE l.previous[s]

LEMMA InsertQueueNextFields ==
  ASSUME NEW l \in Queues, NEW U, Linked(l, U), NEW m \in Slots
  PROVE  Inserted(l, InsertQueueNext(l, m), m, l.current_disp_msg)
<1>. DEFINE A == InsertQueueNext(l, m)
            cur == l.current_disp_msg
            nxt == [[l.next EXCEPT ![m] = l.next[cur]] EXCEPT ![cur] = m]
            prv == [l.previous EXCEPT ![m] = cur]
            prv2 == IF nxt[m] # NULL THEN [prv EXCEPT ![nxt[m]] = m] ELSE prv
            pri == [l.priority EXCEPT ![m] = l.priority[cur]]
<1>1. CASE cur = NULL
  <2>1. A = AppendQueue(l, m)
    BY <1>1 DEF InsertQueueNext
  <2>2. Appended(l, A, m, l.priority[m], l.message_queues[l.priority[m]])
    BY <2>1, AppendQueueFields
  <2>. HIDE DEF A
  <2>3. /\ A \in Queues
        /\ A.used = l.used /\ A.cycles_left = l.cycles_left /\ A.priority = l.priority
        /\ A.current_disp_msg = cur /\ A.time_left_ms = l.time_left_ms
    BY <2>2 DEF Appended
  <2>. QED
    BY <1>1, <2>3 DEF A, Inserted
<1>2. CASE cur # NULL
  <2>1. /\ cur \in Slots /\ m \in Pointers /\ NULL \in Pointers /\ NULL \notin Slots
        /\ l.next[cur] \in Pointers /\ l.priority[cur] \in Priorities
    BY <1>2, SlotFacts DEF Queues, Pointers
  <2>2. A = [l EXCEPT !.next = nxt, !.previous = prv2, !.priority = pri]
    BY <1>2 DEF InsertQueueNext
  <2>3. /\ nxt \in [Slots -> Pointers] /\ prv \in [Slots -> Pointers]
        /\ pri \in [Slots -> Priorities]
    BY <2>1 DEF Queues, Pointers
  <2>4. \A s \in Slots :
          /\ nxt[s] = IF s = cur THEN m ELSE IF s = m THEN l.next[cur] ELSE l.next[s]
          /\ prv[s] = IF s = m THEN cur ELSE l.previous[s]
          /\ pri[s] = IF s = m THEN l.priority[cur] ELSE l.priority[s]
    BY <2>1 DEF Queues
  <2>. HIDE DEF nxt, prv, pri
  <2>5. nxt[m] \in Pointers
    BY <2>3
  <2>6. prv2 \in [Slots -> Pointers]
    BY <2>1, <2>3, <2>5
  <2>7. nxt[m] # NULL => nxt[m] \in Slots
    BY <2>5 DEF Pointers
  <2>8. ASSUME cur # m, NEW s \in Slots
        PROVE  prv2[s] = IF s = l.next[cur] THEN m ELSE IF s = m THEN cur ELSE l.previous[s]
    <3>1. nxt[m] = l.next[cur]
      BY <2>4, <2>8
    <3>2. prv2[s] = IF s = l.next[cur] THEN m ELSE prv[s]
      BY <2>1, <2>3, <2>7, <3>1
    <3>. QED
      BY <2>4, <3>2
  <2>. HIDE DEF prv2, A
  <2>9. A \in Queues
    BY <2>2, <2>3, <2>6 DEF Queues
  <2>10. /\ A.used = l.used /\ A.cycles_left = l.cycles_left
         /\ A.current_disp_msg = cur /\ A.time_left_ms = l.time_left_ms
         /\ A.message_queues = l.message_queues
    BY <2>2 DEF Queues
  <2>11. A.next = nxt /\ A.previous = prv2 /\ A.priority = pri
    BY <2>2 DEF Queues
  <2>12. \A s \in Slots : A.priority[s] =
           IF s = m /\ cur # NULL THEN l.priority[cur] ELSE l.priority[s]
    BY <1>2, <2>4, <2>11
  <2>13. \A s \in Slots : A.next[s] =
           IF s = cur THEN m ELSE IF s = m THEN l.next[cur] ELSE l.next[s]
    BY <2>4, <2>11
  <2>14. cur # m => \A s \in Slots : A.previous[s] =
           IF s = l.next[cur] THEN m ELSE IF s = m THEN cur ELSE l.previous[s]
    BY <2>8, <2>11
  <2>. QED
    BY <2>9, <2>10, <2>12, <2>13, <2>14 DEF A, Inserted
<1>. QED
  BY <1>1, <1>2

\* It puts a slot into the list of the message on the screen, if that one is
\* in a list.
LEMMA InsertQueueNextLinks ==
  ASSUME NEW l \in Queues, NEW U, Linked(l, U), NEW m \in Slots, m \notin U,
         l.current_disp_msg # NULL => l.current_disp_msg \in U
  PROVE  Linked(InsertQueueNext(l, m), U \cup {m})
<1>. DEFINE c == l.current_disp_msg
            V == U \cup {m}
<1>1. CASE c = NULL
  BY <1>1, AppendQueueLinks DEF InsertQueueNext
<1>2. CASE c # NULL
  <2>. DEFINE A == InsertQueueNext(l, m)
  <2>1. /\ A \in Queues
        /\ A.message_queues = l.message_queues
        /\ \A s \in Slots : A.priority[s] = IF s = m THEN l.priority[c] ELSE l.priority[s]
        /\ \A s \in Slots : A.next[s] =
             IF s = c THEN m ELSE IF s = m THEN l.next[c] ELSE l.next[s]
        /\ c # m => \A s \in Slots : A.previous[s] =
             IF s = l.next[c] THEN m ELSE IF s = m THEN c ELSE l.previous[s]
    BY <1>2, InsertQueueNextFields DEF Inserted
  <2>. SUFFICES Linked(A, V)
    OBVIOUS
  <2>. HIDE DEF A
  <2>2. /\ c \in U /\ c \in Slots /\ c # m /\ m # NULL /\ NULL \notin Slots
        /\ U \subseteq Slots /\ l.priority[c] \in Priorities
        /\ l.next[m] = NULL /\ l.previous[m] = NULL
    BY <1>2, SlotFacts DEF Queues, Linked
  <2>3. l.next[c] # NULL => l.next[c] \in U /\ l.next[c] # m /\ l.next[c] # c
    BY <2>2, NoLoop DEF Linked
  <2>4. ASSUME NEW s \in V, NEW S \in SUBSET Slots,
               Closed(A, A.message_queues[A.priority[s]], S)
        PROVE  s \in S
    <3>. DEFINE r == A.priority[s]
                g == l.message_queues[r]
                T == S \cap U
    <3>1. r \in Priorities /\ Closed(A, g, S)
      BY <2>1, <2>2, <2>4 DEF Queues
    <3>2. g # NULL => g \in T
      BY <3>1 DEF Closed, Linked
    <3>3. ASSUME NEW x \in T, l.next[x] # NULL  PROVE l.next[x] \in T
      <4>1. l.next[x] \in U /\ x \in S /\ x \in Slots /\ x # m
        BY <2>2, <3>3 DEF Linked
      <4>2. CASE x = c
        <5>1. m \in S
          BY <2>1, <2>2, <3>1, <4>1, <4>2 DEF Closed
        <5>2. A.next[m] = l.next[c]
          BY <2>1, <2>2
        <5>. QED
          BY <3>1, <3>3, <4>1, <4>2, <5>1, <5>2 DEF Closed
      <4>3. CASE x # c
        <5>1. A.next[x] = l.next[x]
          BY <2>1, <4>1, <4>3
        <5>. QED
          BY <3>1, <3>3, <4>1, <5>1 DEF Closed
      <4>. QED
        BY <4>2, <4>3
    <3>4. Closed(l, g, T) /\ T \in SUBSET Slots
      BY <3>2, <3>3 DEF Closed
    <3>5. \A x \in U : l.priority[x] = r => x \in S
      BY <3>4 DEF Linked, Chain
    <3>6. CASE s = m
      <4>1. c \in S
        BY <2>1, <2>2, <3>5, <3>6
      <4>. QED
        BY <2>1, <2>2, <3>1, <3>6, <4>1 DEF Closed
    <3>7. CASE s \in U
      BY <2>1, <2>2, <3>5, <3>7
    <3>. QED
      BY <3>6, <3>7
  <2>5. \A s \in V : s \in Chain(A, A.message_queues[A.priority[s]])
    BY <2>2, <2>4 DEF Chain
  <2>6. ASSUME NEW s \in V, A.next[s] # NULL
        PROVE  /\ A.next[s] \in V
               /\ A.previous[A.next[s]] = s /\ A.priority[A.next[s]] = A.priority[s]
    BY <2>1, <2>2, <2>3, <2>6 DEF Linked
  <2>7. ASSUME NEW s \in V, A.previous[s] # NULL
        PROVE  A.previous[s] \in V /\ A.next[A.previous[s]] = s
    BY <2>1, <2>2, <2>3, <2>7 DEF Linked
  <2>8. \A r \in Priorities : A.message_queues[r] # NULL =>
          /\ A.message_queues[r] \in V /\ A.priority[A.message_queues[r]] = r
          /\ A.previous[A.message_queues[r]] = NULL
    BY <2>1, <2>2, <2>3 DEF Linked
  <2>9. \A s \in Slots \ V : A.next[s] = NULL /\ A.previous[s] = NULL
    BY <2>1, <2>2, <2>3 DEF Linked
  <2>. QED
    BY <2>2, <2>5, <2>6, <2>7, <2>8, <2>9 DEF Linked
<1>. QED
  BY <1>1, <1>2

-----------------------------------------------------------------------------
(* get_next_disp_msg, disp_next_message and delete_message *)

\* The links, queues and priorities say all about the lists.
LEMMA SameLinks ==
  ASSUME NEW l, NEW k, NEW U, Linked(l, U),
         k.next = l.next, k.previous = l.previous,
         k.message_queues = l.message_queues, k.priority = l.priority
  PROVE  Linked(k, U)
BY DEF Linked, Chain, Closed

\* The search through the priorities ends at the first list that is not empty,
\* which is the current one if that is not.
LEMMA NextFound ==
  ASSUME NEW l \in Queues,
         l.current_disp_msg = NULL \/ l.next[l.current_disp_msg] = NULL
  PROVE  LET cur   == l.current_disp_msg
             start == IF cur = NULL THEN 0 ELSE l.priority[cur]
             g     == GetNextDispMsg(l)
         IN /\ g # NULL => \E p \in Priorities : g = l.message_queues[p]
            /\ l.message_queues[start] # NULL => g = l.message_queues[start]
<1>. DEFINE cur == l.current_disp_msg
            start == IF cur = NULL THEN 0 ELSE l.priority[cur]
            Head(i) == l.message_queues[(start + i) % MAX_MSG_PRIORITY]
            filled == {i \in Priorities : Head(i) # NULL}
            first == CHOOSE i \in filled : \A j \in filled : i <= j
<1>1. GetNextDispMsg(l) = IF filled = {} THEN NULL ELSE Head(first)
  BY DEF GetNextDispMsg
<1>2. start \in Priorities /\ Priorities \subseteq Nat /\ 0 \in Priorities
  <2>1. cur # NULL => l.priority[cur] \in Priorities
    BY DEF Queues, Pointers
  <2>2. 0 \in Priorities /\ Priorities \subseteq Nat
    BY SlotFacts DEF Priorities
  <2>. QED
    BY <2>1, <2>2
<1>. HIDE DEF start
<1>3. \A i \in Priorities : (start + i) % MAX_MSG_PRIORITY \in Priorities
  <2>1. \A i \in Priorities : start + i \in Nat
    BY <1>2
  <2>. QED
    BY <2>1, Round
<1>4. Head(0) = l.message_queues[start]
  <2>1. start + 0 = start /\ start \in Nat
    BY <1>2
  <2>. QED
    BY <1>2, <2>1, Round
<1>5. ASSUME filled # {}
      PROVE  first \in filled /\ \A j \in filled : first <= j
  <2>1. filled \in SUBSET Nat
    BY <1>2
  <2>2. \E i \in filled : \A j \in filled : i <= j
    BY <1>5, <2>1, LeastNumber
  <2>. QED
    BY <2>2
<1>. HIDE DEF first
<1>6. filled # {} => Head(first) # NULL /\ \E p \in Priorities : Head(first) = l.message_queues[p]
  BY <1>3, <1>5
<1>7. Head(0) # NULL => filled # {} /\ first = 0
  <2>. SUFFICES ASSUME Head(0) # NULL PROVE filled # {} /\ first = 0
    OBVIOUS
  <2>1. 0 \in filled
    BY <1>2
  <2>2. first \in Nat /\ first <= 0
    BY <1>2, <1>5, <2>1
  <2>. QED
    BY <2>1, <2>2
<1>. HIDE DEF filled, Head
<1>8. GetNextDispMsg(l) # NULL =>
        \E p \in Priorities : GetNextDispMsg(l) = l.message_queues[p]
  BY <1>1, <1>6
<1>9. l.message_queues[start] # NULL => GetNextDispMsg(l) = l.message_queues[start]
  BY <1>1, <1>4, <1>7
<1>. QED
  BY <1>8, <1>9 DEF start

\* The message found is one in a list, even if the current one is in none.
LEMMA NextIsLinked ==
  ASSUME NEW l \in Queues, NEW U, Linked(l, U)
  PROVE  /\ GetNextDispMsg(l) \in Pointers
         /\ GetNextDispMsg(l) # NULL => GetNextDispMsg(l) \in U
<1>. DEFINE cur == l.current_disp_msg
            g == GetNextDispMsg(l)
<1>1. cur # NULL => cur \in Slots
  BY DEF Queues, Pointers
<1>2. CASE cur # NULL /\ l.next[cur] # NULL
  <2>1. g = l.next[cur]
    BY <1>2 DEF GetNextDispMsg
  <2>. QED
    BY <1>1, <1>2, <2>1 DEF Linked, Pointers
<1>3. CASE cur = NULL \/ l.next[cur] = NULL
  <2>1. g # NULL => \E p \in Priorities : g = l.message_queues[p]
    BY <1>3, NextFound
  <2>2. g # NULL => g \in U
    BY <2>1 DEF Linked
  <2>. QED
    BY <2>2 DEF Linked, Pointers
<1>. QED
  BY <1>2, <1>3

\* Where another message has the current one's priority, the next message is
\* not the current one again.
LEMMA NextIsOther ==
  ASSUME NEW l \in Queues, NEW U, Linked(l, U), l.current_disp_msg \in U,
         NEW r \in U, r # l.current_disp_msg,
         l.priority[r] = l.priority[l.current_disp_msg]
  PROVE  /\ GetNextDispMsg(l) \in U
         /\ GetNextDispMsg(l) # l.current_disp_msg
<1>. DEFINE cur == l.current_disp_msg
            p == l.priority[cur]
            h == l.message_queues[p]
<1>1. cur \in Slots /\ cur # NULL /\ p \in Priorities /\ NULL \notin U
  BY SlotFacts DEF Linked, Queues
<1>2. CASE l.next[cur] # NULL
  <2>1. GetNextDispMsg(l) = l.next[cur]
    BY <1>1, <1>2 DEF GetNextDispMsg
  <2>. QED
    BY <1>2, <2>1, NoLoop DEF Linked
<1>3. CASE l.next[cur] = NULL
  <2>1. h # NULL
    BY HasHead
  <2>2. GetNextDispMsg(l) = h
    BY <1>1, <1>3, <2>1, NextFound
  <2>3. h = cur => Closed(l, h, {cur})
    BY <1>3 DEF Closed
  <2>4. h = cur => Chain(l, h) \subseteq {cur}
    BY <1>1, <2>3, InClosed
  <2>5. h # cur
    BY <2>4 DEF Linked
  <2>. QED
    BY <1>1, <2>1, <2>2, <2>5 DEF Linked
<1>. QED
  BY <1>2, <1>3

\* What disp_next_message changes.
Displayed(l, D, U) ==
  /\ D \in Queues /\ Linked(D, U)
  /\ D.used = l.used /\ D.cycles_left = l.cycles_left
  /\ D.priority = l.priority /\ D.msg_count = l.msg_count
  /\ D.current_disp_msg = GetNextDispMsg(l)

LEMMA DispNextMessageFields ==
  ASSUME NEW l \in Queues, NEW U, Linked(l, U)
  PROVE  Displayed(l, DispNextMessage(l), U)
<1>. DEFINE D == DispNextMessage(l)
            m == GetNextDispMsg(l)
            time == IF m = NULL THEN l.time_left_ms ELSE DISPLAY_TIME
<1>1. D = [l EXCEPT !.current_disp_msg = m, !.time_left_ms = time]
  BY DEF DispNextMessage, Queues
<1>2. m \in Pointers
  BY NextIsLinked
<1>3. time \in -1 .. DISPLAY_TIME
  BY ValueAssumption DEF Queues
<1>. HIDE DEF D, m, time
<1>4. D \in Queues
  BY <1>1, <1>2, <1>3 DEF Queues
<1>5. /\ D.used = l.used /\ D.cycles_left = l.cycles_left
      /\ D.priority = l.priority /\ D.msg_count = l.msg_count
      /\ D.next = l.next /\ D.previous = l.previous /\ D.message_queues = l.message_queues
      /\ D.current_disp_msg = m
  BY <1>1 DEF Queues
<1>6. Linked(D, U)
  BY <1>5, SameLinks
<1>. QED
  BY <1>4, <1>5, <1>6 DEF D, m, Displayed

\* What delete_message changes.
Deleted(l, D, m) ==
  /\ D \in Queues /\ Linked(D, InUse(D)) /\ InUse(D) = InUse(l) \ {m}
  /\ D.cycles_left = l.cycles_left /\ D.priority = l.priority
  /\ D.msg_count = (l.msg_count - 1) % 256
  /\ D.current_disp_msg =
       IF l.current_disp_msg = m THEN GetNextDispMsg(l) ELSE l.current_disp_msg

LEMMA DeleteMessageFields ==
  ASSUME NEW l \in Queues, Linked(l, InUse(l)), NEW m \in Slots
  PROVE  Deleted(l, DeleteMessage(l, m), m)
<1>. DEFINE shown == IF l.current_disp_msg = m THEN DispNextMessage(l) ELSE l
            P == PopQueueMsg(shown, m)
            D == DeleteMessage(l, m)
<1>1. D = [P EXCEPT !.used = [P.used EXCEPT ![m] = FALSE]]
  BY SlotFacts DEF DeleteMessage
<1>2. /\ shown \in Queues /\ Linked(shown, InUse(l))
      /\ shown.used = l.used /\ shown.cycles_left = l.cycles_left
      /\ shown.priority = l.priority /\ shown.msg_count = l.msg_count
      /\ shown.current_disp_msg =
           IF l.current_disp_msg = m THEN GetNextDispMsg(l) ELSE l.current_disp_msg
  BY DispNextMessageFields DEF Displayed
<1>. HIDE DEF shown
<1>3. /\ P \in Queues /\ Linked(P, InUse(l) \ {m})
      /\ P.used = shown.used /\ P.cycles_left = shown.cycles_left
      /\ P.priority = shown.priority /\ P.msg_count = (shown.msg_count - 1) % 256
      /\ P.current_disp_msg = shown.current_disp_msg
  BY <1>2, PopQueueMsgFields, PopQueueMsgLinks
<1>. HIDE DEF P, D
<1>4. D \in Queues
  BY <1>1, <1>3 DEF Queues
<1>5. /\ D.cycles_left = P.cycles_left /\ D.priority = P.priority
      /\ D.msg_count = P.msg_count /\ D.current_disp_msg = P.current_disp_msg
      /\ D.next = P.next /\ D.previous = P.previous /\ D.message_queues = P.message_queues
      /\ \A s \in Slots : D.used[s] = IF s = m THEN FALSE ELSE P.used[s]
  BY <1>1, <1>3 DEF Queues
<1>6. InUse(D) = InUse(l) \ {m}
  BY <1>2, <1>3, <1>5 DEF InUse
<1>7. Linked(D, InUse(D))
  BY <1>3, <1>5, <1>6, SameLinks
<1>. QED
  BY <1>2, <1>3, <1>4, <1>5, <1>6, <1>7 DEF D, Deleted

-----------------------------------------------------------------------------
(* Counting. *)

\* There are never so many messages that the count wraps.
LEMMA CountUp ==
  ASSUME NEW U \in SUBSET Slots, NEW m \in Slots, m \notin U
  PROVE  Cardinality(U \cup {m}) = (Cardinality(U) + 1) % 256
<1>1. IsFiniteSet(U) /\ Cardinality(U) \in Nat /\ Cardinality(U) <= Cardinality(Slots)
  BY SlotFacts, FS_Subset, FS_CardinalityType
<1>2. Cardinality(U \cup {m}) = Cardinality(U) + 1
  BY <1>1, FS_AddElement
<1>3. Cardinality(U) <= MAX_MSGS
  BY <1>1, SlotFacts
<1>4. (Cardinality(U) + 1) % 256 = Cardinality(U) + 1
  BY <1>1, <1>3, SlotAssumption
<1>. QED
  BY <1>2, <1>4

LEMMA CountDown ==
  ASSUME NEW U \in SUBSET Slots, NEW m \in U
  PROVE  Cardinality(U \ {m}) = (Cardinality(U) - 1) % 256
<1>1. IsFiniteSet(U) /\ Cardinality(U) \in Nat /\ Cardinality(U) <= Cardinality(Slots)
  BY SlotFacts, FS_Subset, FS_CardinalityType
<1>2. Cardinality(U \ {m}) = Cardinality(U) - 1 /\ Cardinality(U \ {m}) \in Nat
  BY <1>1, FS_RemoveElement, FS_CardinalityType
<1>3. Cardinality(U) <= MAX_MSGS
  BY <1>1, SlotFacts
<1>4. (Cardinality(U) - 1) % 256 = Cardinality(U) - 1
  BY <1>1, <1>2, <1>3, SlotAssumption
<1>. QED
  BY <1>2, <1>4

-----------------------------------------------------------------------------
(* What each call does to the messages in use. *)

\* get_free_msg
LEMMA FreeFound ==
  ASSUME FreeSlots # {}
  PROVE  FirstFree \in Slots /\ FirstFree \notin InUse(q)
<1>1. FreeSlots \in SUBSET Nat
  BY SlotFacts DEF FreeSlots
<1>2. \E s \in FreeSlots : \A r \in FreeSlots : s <= r
  BY <1>1, LeastNumber
<1>3. FirstFree \in FreeSlots
  BY <1>2 DEF FirstFree
<1>. QED
  BY <1>3 DEF FreeSlots, InUse

\* A free slot has been filled in, but is in no list yet.
FilledIn(F, m, c, p) ==
  /\ F \in Queues /\ Linked(F, InUse(q))
  /\ F.used = [q.used EXCEPT ![m] = TRUE]
  /\ F.cycles_left = [q.cycles_left EXCEPT ![m] = c]
  /\ F.priority = [q.priority EXCEPT ![m] = p]
  /\ F.current_disp_msg = q.current_disp_msg /\ F.msg_count = q.msg_count

LEMMA FilledFields ==
  ASSUME q \in Queues, Linked(q, InUse(q)), NEW m \in Slots, m \notin InUse(q),
         NEW c \in -128 .. 127, NEW p \in Priorities
  PROVE  FilledIn(Filled(m, c, p), m, c, p)
<1>. DEFINE F == Filled(m, c, p)
<1>1. F = [q EXCEPT !.used = [q.used EXCEPT ![m] = TRUE],
                    !.cycles_left = [q.cycles_left EXCEPT ![m] = c],
                    !.priority = [q.priority EXCEPT ![m] = p]]
  BY DEF Filled
<1>. HIDE DEF F
<1>2. F \in Queues
  BY <1>1 DEF Queues
<1>3. /\ F.used = [q.used EXCEPT ![m] = TRUE]
      /\ F.cycles_left = [q.cycles_left EXCEPT ![m] = c]
      /\ F.priority = [q.priority EXCEPT ![m] = p]
      /\ F.current_disp_msg = q.current_disp_msg /\ F.msg_count = q.msg_count
      /\ F.next = q.next /\ F.previous = q.previous /\ F.message_queues = q.message_queues
  BY <1>1 DEF Queues
<1>4. \A s \in InUse(q) : F.priority[s] = q.priority[s]
  BY <1>3 DEF InUse, Queues
<1>5. Linked(F, InUse(q))
  BY <1>3, <1>4 DEF Linked, Chain, Closed
<1>. QED
  BY <1>2, <1>3, <1>5 DEF F, FilledIn

\* What new_message and print_message_repeat have in common.
Queued(A, m, c, p) ==
  /\ A \in Queues /\ Linked(A, InUse(A)) /\ InUse(A) = InUse(q) \cup {m}
  /\ A.used = [q.used EXCEPT ![m] = TRUE]
  /\ A.cycles_left = [q.cycles_left EXCEPT ![m] = c]
  /\ A.priority = [q.priority EXCEPT ![m] = p]
  /\ A.current_disp_msg = q.current_disp_msg
  /\ A.msg_count = (q.msg_count + 1) % 256

LEMMA QueuedFields ==
  ASSUME q \in Queues, Linked(q, InUse(q)), NEW m \in Slots, m \notin InUse(q),
         NEW c \in -128 .. 127, NEW p \in Priorities
  PROVE  Queued(AppendQueue(Filled(m, c, p), m), m, c, p)
<1>. DEFINE F == Filled(m, c, p)
            A == AppendQueue(F, m)
<1>1. FilledIn(F, m, c, p)
  BY FilledFields
<1>. HIDE DEF F
<1>. USE DEF FilledIn
<1>2. Appended(F, A, m, F.priority[m], F.message_queues[F.priority[m]])
  BY <1>1, AppendQueueFields
<1>3. Linked(A, InUse(q) \cup {m})
  BY <1>1, AppendQueueLinks
<1>. HIDE DEF A
<1>4. /\ A \in Queues
      /\ A.used = F.used /\ A.cycles_left = F.cycles_left /\ A.priority = F.priority
      /\ A.current_disp_msg = F.current_disp_msg /\ A.msg_count = (F.msg_count + 1) % 256
  BY <1>2 DEF Appended
<1>5. InUse(A) = InUse(q) \cup {m}
  BY <1>1, <1>4 DEF InUse, Queues
<1>. QED
  BY <1>1, <1>3, <1>4, <1>5 DEF A, F, Queued

-----------------------------------------------------------------------------
(* The initial state. *)

LEMMA InitLinked ==
  ASSUME Init
  PROVE  /\ q \in Queues /\ InUse(q) = 1 .. Greetings /\ 1 .. Greetings \in SUBSET Slots
         /\ Linked(q, InUse(q))
<1>1. Greetings \in Nat /\ Greetings <= MAX_MSGS /\ Slots = 1 .. MAX_MSGS /\ MAX_MSGS <= 254
  BY ValueAssumption, SlotAssumption DEF Slots
<1>2. q \in Queues
  <2>1. Lowest \in Priorities /\ 0 \in Priorities /\ NULL \in Pointers /\ DISPLAY_TIME \in Nat
    BY SlotFacts, ValueAssumption DEF Pointers
  <2>2. /\ \A s \in Slots : s <= Greetings => s - 1 \in Pointers
        /\ \A s \in Slots : s < Greetings => s + 1 \in Pointers
        /\ Greetings > 0 => 1 \in Pointers
        /\ Greetings \in 0 .. 255
    BY ValueAssumption, SlotAssumption DEF Pointers, NULL, Slots
  <2>. QED
    BY <2>1, <2>2 DEF Init, Queues
<1>3. InUse(q) = 1 .. Greetings
  <2>1. q.used = [s \in Slots |-> s <= Greetings]
    BY DEF Init
  <2>2. InUse(q) = {s \in Slots : s <= Greetings}
    BY <2>1 DEF InUse
  <2>3. {s \in 1 .. MAX_MSGS : s <= Greetings} = 1 .. Greetings
    BY ValueAssumption, SlotAssumption
  <2>. QED
    BY <2>2, <2>3 DEF Slots
<1>4. \A s \in Slots :
        /\ q.priority[s] = IF s <= Greetings THEN Lowest ELSE 0
        /\ q.previous[s] = IF s <= Greetings THEN s - 1 ELSE NULL
        /\ q.next[s] = IF s < Greetings THEN s + 1 ELSE NULL
  BY DEF Init
<1>5. \A p \in Priorities :
        q.message_queues[p] = IF p = Lowest /\ Greetings > 0 THEN 1 ELSE NULL
  BY DEF Init
<1>6. 1 .. Greetings \in SUBSET Slots /\ NULL = 0 /\ Lowest \in Priorities
  BY <1>1, SlotFacts DEF NULL
<1>7. ASSUME NEW s \in 1 .. Greetings, NEW S \in SUBSET Slots,
             Closed(q, q.message_queues[q.priority[s]], S)
      PROVE  s \in S
  <2>. DEFINE Rest == {r \in 1 .. Greetings : r \notin S}
  <2>. SUFFICES ASSUME Rest # {} PROVE FALSE
    OBVIOUS
  <2>1. q.message_queues[q.priority[s]] = 1
    <3>1. s \in Slots /\ s <= Greetings /\ Greetings > 0
      BY <1>1, <1>6
    <3>2. q.priority[s] = Lowest
      BY <1>4, <3>1
    <3>. QED
      BY <1>5, <1>6, <3>1, <3>2
  <2>2. 1 \in S
    BY <1>6, <1>7, <2>1 DEF Closed
  <2>3. Rest \in SUBSET Nat
    OBVIOUS
  <2>. HIDE DEF Rest
  <2>4. PICK r \in Rest : \A k \in Rest : r <= k
    BY <2>3, LeastNumber
  <2>5. r \in 1 .. Greetings /\ r \notin S
    BY <2>4 DEF Rest
  <2>6. r - 1 \in 1 .. Greetings /\ r - 1 < r /\ r - 1 < Greetings /\ r - 1 + 1 = r
    BY <1>1, <2>2, <2>5
  <2>7. r - 1 \in S
    BY <2>3, <2>4, <2>6 DEF Rest
  <2>8. q.next[r - 1] = r /\ r # NULL
    BY <1>4, <1>6, <2>5, <2>6
  <2>. QED
    BY <1>7, <2>5, <2>7, <2>8 DEF Closed
<1>8. \A s \in 1 .. Greetings : s \in Chain(q, q.message_queues[q.priority[s]])
  BY <1>6, <1>7 DEF Chain
<1>. DEFINE U == 1 .. Greetings
<1>9. \A s \in Slots \ U : q.next[s] = NULL /\ q.previous[s] = NULL
  BY <1>1, <1>4
<1>10. \A s \in U : q.next[s] # NULL =>
         /\ q.next[s] \in U
         /\ q.previous[q.next[s]] = s /\ q.priority[q.next[s]] = q.priority[s]
  BY <1>1, <1>4, <1>6
<1>11. \A s \in U : q.previous[s] # NULL =>
         q.previous[s] \in U /\ q.next[q.previous[s]] = s
  BY <1>1, <1>4, <1>6
<1>12. \A p \in Priorities : q.message_queues[p] # NULL =>
         /\ q.message_queues[p] \in U /\ q.priority[q.message_queues[p]] = p
         /\ q.previous[q.message_queues[p]] = NULL
  BY <1>1, <1>4, <1>5, <1>6
<1>. HIDE DEF U
<1>13. Linked(q, U)
  BY <1>6, <1>8, <1>9, <1>10, <1>11, <1>12 DEF Linked, U
<1>. QED
  BY <1>2, <1>3, <1>6, <1>13 DEF U

LEMMA InitInvariant ==
  ASSUME Init
  PROVE  IInv
<1>1. /\ q \in Queues /\ InUse(q) = 1 .. Greetings /\ 1 .. Greetings \in SUBSET Slots
      /\ Linked(q, InUse(q))
  BY InitLinked
<1>2. uses \in Uses /\ handles = {} /\ sound = TRUE
  BY DEF Init
<1>3. Greetings \in Nat /\ q.msg_count = Greetings /\ q.current_disp_msg = NULL
  BY ValueAssumption DEF Init
<1>4. \A s \in 1 .. Greetings : q.cycles_left[s] = -1 /\ q.priority[s] = Lowest /\ q.used[s]
  <2>1. \A s \in 1 .. Greetings : s \in Slots /\ s <= Greetings
    BY <1>1, <1>3
  <2>2. \A s \in 1 .. Greetings : q.cycles_left[s] = -1 /\ q.priority[s] = Lowest
    BY <2>1 DEF Init
  <2>3. \A s \in 1 .. Greetings : q.used[s]
    BY <1>1 DEF InUse
  <2>. QED
    BY <2>2, <2>3
<1>5. Cardinality(1 .. Greetings) = Greetings
  <2>1. Cardinality(1 .. Greetings) = IF 1 > Greetings THEN 0 ELSE Greetings - 1 + 1
    BY <1>3, FS_Interval
  <2>. QED
    BY <1>3, <2>1
<1>6. TypeOK
  BY <1>1, <1>2 DEF TypeOK
<1>7. Resident => 1 \in 1 .. Greetings
  BY <1>3 DEF Resident
<1>8. Resident => GreetingStays
  BY <1>1, <1>2, <1>3, <1>4, <1>7 DEF GreetingStays, ShownIsUsed
<1>9. NoneExpires
  <2>1. \A s \in Slots : q.used[s] => s \in 1 .. Greetings
    BY <1>1 DEF InUse
  <2>. QED
    BY <1>3, <1>4, <2>1, SlotFacts DEF NoneExpires
<1>10. CountIsUsed
  BY <1>1, <1>3, <1>5 DEF CountIsUsed
<1>. QED
  BY <1>1, <1>2, <1>6, <1>8, <1>9, <1>10 DEF IInv, HandlesKept

-----------------------------------------------------------------------------
(* The steps. *)

\* new_message and print_message_repeat
LEMMA QueuedKeeps ==
  ASSUME IInv, NEW m \in Slots, m \notin InUse(q), NEW p \in Asked,
         NEW c \in Repeats \cup {-1},
         q' = AppendQueue(Filled(m, c, p), m), uses' = uses, sound' = sound,
         handles' = handles \/ (handles' = handles \cup {m} /\ c = -1)
  PROVE  IInv'
<1>1. /\ q \in Queues /\ Linked(q, InUse(q)) /\ uses \in Uses /\ handles \subseteq Slots
      /\ sound \in BOOLEAN /\ HandlesKept
  BY DEF IInv, TypeOK
<1>2. c \in -128 .. 127 /\ p \in Priorities /\ InUse(q) \in SUBSET Slots
  BY ValueAssumption DEF Priorities, InUse
<1>. DEFINE A == AppendQueue(Filled(m, c, p), m)
<1>0. Queued(A, m, c, p)
  BY <1>1, <1>2, QueuedFields
<1>3. /\ q' \in Queues /\ Linked(q', InUse(q')) /\ InUse(q') = InUse(q) \cup {m}
      /\ q'.used = [q.used EXCEPT ![m] = TRUE]
      /\ q'.cycles_left = [q.cycles_left EXCEPT ![m] = c]
      /\ q'.priority = [q.priority EXCEPT ![m] = p]
      /\ q'.current_disp_msg = q.current_disp_msg
      /\ q'.msg_count = (q.msg_count + 1) % 256
  <2>1. q' = A
    BY DEF A
  <2>. HIDE DEF A
  <2>. QED
    BY <1>0, <2>1 DEF Queued
<1>4. TypeOK'
  BY <1>1, <1>3 DEF TypeOK
<1>5. \A s \in Slots : /\ q'.used[s] <=> s = m \/ q.used[s]
                       /\ q'.cycles_left[s] = IF s = m THEN c ELSE q.cycles_left[s]
                       /\ q'.priority[s] = IF s = m THEN p ELSE q.priority[s]
  BY <1>1, <1>3 DEF Queues
<1>6. \A s \in handles : s # m
  BY <1>1 DEF HandlesKept, InUse
<1>7. HandlesKept'
  BY <1>1, <1>5, <1>6 DEF HandlesKept
<1>8. ASSUME Resident  PROVE GreetingStays'
  <2>1. GreetingStays /\ p = Lowest
    BY <1>8 DEF IInv, Resident
  <2>2. 1 \in Slots /\ 1 # m
    BY <2>1, SlotAssumption DEF GreetingStays, Slots, InUse
  <2>3. q'.used[1] /\ q'.cycles_left[1] = -1 /\ 1 \notin handles'
    BY <1>5, <2>1, <2>2 DEF GreetingStays
  <2>4. \A s \in InUse(q') : q'.priority[s] = Lowest
    BY <1>3, <1>5, <2>1 DEF GreetingStays, InUse
  <2>5. q.current_disp_msg # NULL => q.current_disp_msg \in Slots
    BY <1>1 DEF Queues, Pointers
  <2>6. ShownIsUsed'
    BY <1>3, <1>5, <2>1, <2>5 DEF GreetingStays, ShownIsUsed
  <2>. QED
    BY <2>3, <2>4, <2>6 DEF GreetingStays
<1>9. ASSUME ~MayPrint, ~MayExpire  PROVE NoneExpires'
  <2>1. c < 0
    BY <1>2, <1>9 DEF MayExpire
  <2>2. NoneExpires
    BY <1>9 DEF IInv
  <2>. QED
    BY <1>3, <1>5, <2>1, <2>2 DEF NoneExpires
<1>10. ASSUME sound', "print" \notin uses'  PROVE CountIsUsed'
  <2>1. q.msg_count = Cardinality(InUse(q))
    BY <1>10 DEF IInv, CountIsUsed
  <2>. QED
    BY <1>2, <1>3, <2>1, CountUp DEF CountIsUsed
<1>11. Resident \/ (~MayPrint /\ ~MayExpire) => sound'
  BY DEF IInv
<1>. QED
  BY <1>3, <1>4, <1>7, <1>8, <1>9, <1>10, <1>11 DEF IInv

\* The message that print_message adds, with or without a look at the next.
LEMMA PrintedFields ==
  ASSUME q \in Queues, Linked(q, InUse(q)), NEW m \in Slots, m \notin InUse(q), ShownIsUsed,
         q' \in {InsertQueueNext(Filled(m, 1, Lowest), m),
                 DispNextMessage(InsertQueueNext(Filled(m, 1, Lowest), m))}
  PROVE  /\ q' \in Queues /\ Linked(q', InUse(q')) /\ InUse(q') = InUse(q) \cup {m}
         /\ \A s \in InUse(q) : /\ q'.cycles_left[s] = q.cycles_left[s]
                                /\ q'.priority[s] = q.priority[s]
         /\ q'.priority[m] \in {Lowest} \cup {q.priority[s] : s \in InUse(q)}
         /\ q'.current_disp_msg # NULL => q'.current_disp_msg \in InUse(q')
<1>. DEFINE F == Filled(m, 1, Lowest)
            P == InsertQueueNext(F, m)
            cur == q.current_disp_msg
<1>1. FilledIn(F, m, 1, Lowest)
  <2>1. 1 \in -128 .. 127 /\ Lowest \in Priorities
    BY SlotFacts
  <2>. QED
    BY <2>1, FilledFields
<1>2. cur # NULL => cur \in InUse(q) /\ cur \in Slots /\ cur # m
  BY DEF ShownIsUsed, InUse, Queues, Pointers
<1>. HIDE DEF F
<1>. USE DEF FilledIn
<1>3. /\ P \in Queues /\ P.used = F.used /\ P.cycles_left = F.cycles_left
      /\ P.current_disp_msg = cur
      /\ \A s \in Slots : P.priority[s] =
           IF s = m /\ cur # NULL THEN F.priority[cur] ELSE F.priority[s]
  <2>1. Inserted(F, P, m, F.current_disp_msg)
    BY <1>1, InsertQueueNextFields
  <2>. HIDE DEF P
  <2>. QED
    BY <1>1, <2>1 DEF Inserted
<1>4. Linked(P, InUse(q) \cup {m})
  BY <1>1, <1>2, InsertQueueNextLinks
<1>. HIDE DEF P
<1>5. q' \in {P, DispNextMessage(P)}
  BY DEF P, F
<1>6. /\ q' \in Queues /\ Linked(q', InUse(q) \cup {m})
      /\ q'.used = P.used /\ q'.cycles_left = P.cycles_left /\ q'.priority = P.priority
      /\ q'.current_disp_msg \in {P.current_disp_msg, GetNextDispMsg(P)}
  BY <1>3, <1>4, <1>5, DispNextMessageFields DEF Displayed
<1>7. InUse(q') = InUse(q) \cup {m}
  BY <1>1, <1>3, <1>6 DEF InUse, Queues
<1>8. \A s \in InUse(q) : s \in Slots /\ s # m
  BY DEF InUse
<1>9. \A s \in InUse(q) : /\ q'.cycles_left[s] = q.cycles_left[s]
                          /\ q'.priority[s] = q.priority[s]
  BY <1>1, <1>3, <1>6, <1>8 DEF Queues
<1>10. q'.priority[m] \in {Lowest} \cup {q.priority[s] : s \in InUse(q)}
  <2>1. CASE cur = NULL
    BY <1>1, <1>3, <1>6, <2>1 DEF Queues
  <2>2. CASE cur # NULL
    BY <1>1, <1>2, <1>3, <1>6, <2>2 DEF Queues
  <2>. QED
    BY <2>1, <2>2
<1>11. q'.current_disp_msg # NULL => q'.current_disp_msg \in InUse(q')
  BY <1>2, <1>3, <1>4, <1>6, <1>7, NextIsLinked
<1>. QED
  BY <1>6, <1>7, <1>9, <1>10, <1>11

\* print_message
LEMMA PrintKeeps ==
  ASSUME IInv, Resident \/ ~MayPrint, PrintMessage
  PROVE  IInv'
<1>1. /\ q \in Queues /\ Linked(q, InUse(q)) /\ uses \in Uses /\ handles \subseteq Slots
      /\ sound \in BOOLEAN /\ HandlesKept
  BY DEF IInv, TypeOK
<1>2. MayPrint /\ "print" \in uses /\ UNCHANGED <<uses, handles, sound>>
  BY <1>1 DEF PrintMessage, MayPrint
<1>3. Resident /\ GreetingStays /\ ShownIsUsed /\ sound
  BY <1>2 DEF IInv, GreetingStays
<1>. DEFINE m == FirstFree
<1>4. m \in Slots /\ m \notin InUse(q)
  BY FreeFound DEF PrintMessage
<1>5. q' \in {InsertQueueNext(Filled(m, 1, Lowest), m),
              DispNextMessage(InsertQueueNext(Filled(m, 1, Lowest), m))}
  BY DEF PrintMessage
<1>. HIDE DEF m
<1>6. /\ q' \in Queues /\ Linked(q', InUse(q')) /\ InUse(q') = InUse(q) \cup {m}
      /\ \A s \in InUse(q) : /\ q'.cycles_left[s] = q.cycles_left[s]
                             /\ q'.priority[s] = q.priority[s]
      /\ q'.priority[m] \in {Lowest} \cup {q.priority[s] : s \in InUse(q)}
      /\ q'.current_disp_msg # NULL => q'.current_disp_msg \in InUse(q')
  BY <1>1, <1>3, <1>4, <1>5, PrintedFields
<1>7. TypeOK'
  BY <1>1, <1>2, <1>6 DEF TypeOK
<1>8. \A s \in InUse(q) : s \in InUse(q') /\ q'.used[s]
  BY <1>6 DEF InUse
<1>9. HandlesKept'
  BY <1>1, <1>2, <1>6, <1>8 DEF HandlesKept, InUse
<1>10. GreetingStays'
  <2>1. 1 \in InUse(q)
    BY <1>3, SlotAssumption DEF GreetingStays, InUse, Slots
  <2>2. q'.used[1] /\ q'.cycles_left[1] = -1 /\ 1 \notin handles'
    BY <1>2, <1>3, <1>6, <1>8, <2>1 DEF GreetingStays
  <2>3. \A s \in InUse(q') : q'.priority[s] = Lowest
    BY <1>3, <1>6 DEF GreetingStays
  <2>4. ShownIsUsed'
    BY <1>6 DEF ShownIsUsed, InUse
  <2>. QED
    BY <2>2, <2>3, <2>4 DEF GreetingStays
<1>. QED
  BY <1>2, <1>3, <1>6, <1>7, <1>9, <1>10 DEF IInv

\* delete_message
LEMMA DeleteKeeps ==
  ASSUME IInv, NEW m \in handles, Delete(m)
  PROVE  IInv'
<1>1. /\ q \in Queues /\ Linked(q, InUse(q)) /\ uses \in Uses /\ handles \subseteq Slots
      /\ sound \in BOOLEAN /\ HandlesKept
  BY DEF IInv, TypeOK
<1>. DEFINE D == DeleteMessage(q, m)
            cur == q.current_disp_msg
<1>2. m \in Slots /\ m \in InUse(q) /\ m # NULL /\ InUse(q) \in SUBSET Slots
  BY <1>1, SlotFacts DEF HandlesKept, InUse
<1>3. Deleted(q, D, m)
  BY <1>1, <1>2, DeleteMessageFields
<1>4. q' = D /\ handles' = handles \ {m} /\ uses' = uses
  BY DEF Delete
<1>5. sound' = sound
  BY <1>1, <1>2 DEF Delete, FreesTwice, InUse
<1>. HIDE DEF D
<1>6. /\ q' \in Queues /\ Linked(q', InUse(q')) /\ InUse(q') = InUse(q) \ {m}
      /\ q'.cycles_left = q.cycles_left /\ q'.priority = q.priority
      /\ q'.msg_count = (q.msg_count - 1) % 256
      /\ q'.current_disp_msg = IF cur = m THEN GetNextDispMsg(q) ELSE cur
  BY <1>3, <1>4 DEF Deleted
<1>7. \A s \in Slots : q'.used[s] <=> s # m /\ q.used[s]
  BY <1>6 DEF InUse
<1>8. TypeOK'
  BY <1>1, <1>4, <1>5, <1>6 DEF TypeOK
<1>9. HandlesKept'
  BY <1>1, <1>4, <1>6, <1>7 DEF HandlesKept
<1>10. ASSUME Resident  PROVE GreetingStays'
  <2>1. GreetingStays
    BY <1>10 DEF IInv
  <2>2. 1 \in InUse(q) /\ 1 \in Slots /\ 1 # m
    BY <2>1, SlotAssumption DEF GreetingStays, InUse, Slots
  <2>3. q'.used[1] /\ q'.cycles_left[1] = -1 /\ 1 \notin handles'
    BY <1>4, <1>6, <1>7, <2>1, <2>2 DEF GreetingStays
  <2>4. \A s \in InUse(q') : q'.priority[s] = Lowest
    BY <1>6, <2>1 DEF GreetingStays
  <2>5. cur # NULL => cur \in InUse(q)
    BY <1>1, <2>1 DEF GreetingStays, ShownIsUsed, InUse, Queues, Pointers
  <2>6. cur = m => GetNextDispMsg(q) \in InUse(q) /\ GetNextDispMsg(q) # m
    <3>1. q.priority[1] = q.priority[m]
      BY <1>2, <2>1, <2>2 DEF GreetingStays
    <3>. QED
      BY <1>1, <1>2, <2>2, <3>1, NextIsOther
  <2>7. q'.current_disp_msg # NULL => q'.current_disp_msg \in InUse(q')
    BY <1>6, <2>5, <2>6
  <2>8. ShownIsUsed'
    BY <2>7 DEF ShownIsUsed, InUse
  <2>. QED
    BY <2>3, <2>4, <2>8 DEF GreetingStays
<1>11. ASSUME ~MayPrint, ~MayExpire  PROVE NoneExpires'
  <2>1. NoneExpires
    BY <1>11 DEF IInv
  <2>2. ASSUME NEW s \in Slots, q'.used[s] \/ s = q'.current_disp_msg
        PROVE  q.cycles_left[s] < 0
    <3>1. CASE q.used[s]
      BY <2>1, <3>1 DEF NoneExpires
    <3>2. CASE ~q.used[s]
      <4>1. s = q'.current_disp_msg /\ s # NULL
        BY <1>7, <2>2, <3>2, SlotFacts
      <4>2. s # GetNextDispMsg(q)
        BY <1>1, <3>2, <4>1, NextIsLinked DEF InUse
      <4>3. s = cur
        BY <1>6, <4>1, <4>2
      <4>. QED
        BY <2>1, <4>3 DEF NoneExpires
    <3>. QED
      BY <3>1, <3>2
  <2>. QED
    BY <1>6, <2>2 DEF NoneExpires
<1>12. ASSUME sound', "print" \notin uses'  PROVE CountIsUsed'
  <2>1. q.msg_count = Cardinality(InUse(q))
    BY <1>4, <1>5, <1>12 DEF IInv, CountIsUsed
  <2>. QED
    BY <1>2, <1>6, <2>1, CountDown DEF CountIsUsed
<1>13. Resident \/ (~MayPrint /\ ~MayExpire) => sound'
  BY <1>5 DEF IInv
<1>. QED
  BY <1>6, <1>8, <1>9, <1>10, <1>11, <1>12, <1>13 DEF IInv

\* What update_priority changes: it takes the message out and puts it back.
LEMMA UpdatedFields ==
  ASSUME q \in Queues, Linked(q, InUse(q)), NEW m \in InUse(q), NEW p \in Priorities,
         q' = AppendQueue([PopQueueMsg(q, m) EXCEPT !.priority[m] = p], m)
  PROVE  /\ q' \in Queues /\ Linked(q', InUse(q')) /\ InUse(q') = InUse(q)
         /\ q'.used = q.used /\ q'.cycles_left = q.cycles_left
         /\ q'.priority = [q.priority EXCEPT ![m] = p]
         /\ q'.current_disp_msg = q.current_disp_msg /\ q'.msg_count = q.msg_count
<1>. DEFINE P == PopQueueMsg(q, m)
            F == [P EXCEPT !.priority[m] = p]
            A == AppendQueue(F, m)
            V == InUse(q) \ {m}
<1>1. m \in Slots
  BY DEF InUse
<1>2. /\ P \in Queues /\ Linked(P, V)
      /\ P.used = q.used /\ P.cycles_left = q.cycles_left /\ P.priority = q.priority
      /\ P.current_disp_msg = q.current_disp_msg
      /\ P.msg_count = (q.msg_count - 1) % 256
  BY <1>1, PopQueueMsgFields, PopQueueMsgLinks
<1>. HIDE DEF P
<1>3. F = [P EXCEPT !.priority = [P.priority EXCEPT ![m] = p]]
  OBVIOUS
<1>4. q' = A
  BY DEF P
<1>. HIDE DEF F
<1>5. /\ F \in Queues
      /\ F.used = P.used /\ F.cycles_left = P.cycles_left
      /\ F.priority = [P.priority EXCEPT ![m] = p]
      /\ F.current_disp_msg = P.current_disp_msg /\ F.msg_count = P.msg_count
      /\ F.next = P.next /\ F.previous = P.previous /\ F.message_queues = P.message_queues
  BY <1>1, <1>2, <1>3 DEF Queues
<1>6. \A s \in V : F.priority[s] = P.priority[s]
  BY <1>2, <1>5 DEF Queues, InUse
<1>. HIDE DEF V
<1>7. Linked(F, V)
  BY <1>2, <1>5, <1>6 DEF Linked, Chain, Closed
<1>8. m \notin V /\ V \cup {m} = InUse(q)
  BY DEF V
<1>9. Appended(F, A, m, F.priority[m], F.message_queues[F.priority[m]])
  BY <1>1, <1>5, <1>7, AppendQueueFields
<1>10. Linked(A, InUse(q))
  BY <1>1, <1>5, <1>7, <1>8, AppendQueueLinks
<1>. HIDE DEF A
<1>11. /\ A \in Queues
       /\ A.used = F.used /\ A.cycles_left = F.cycles_left /\ A.priority = F.priority
       /\ A.current_disp_msg = F.current_disp_msg /\ A.msg_count = (F.msg_count + 1) % 256
  BY <1>9 DEF Appended
<1>12. InUse(A) = InUse(q)
  BY <1>2, <1>5, <1>11 DEF InUse
<1>13. (((q.msg_count - 1) % 256) + 1) % 256 = q.msg_count
  <2>1. q.msg_count \in 0 .. 255
    BY DEF Queues
  <2>. QED
    BY <2>1
<1>. QED
  BY <1>2, <1>4, <1>5, <1>10, <1>11, <1>12, <1>13

\* update_priority
LEMMA UpdateKeeps ==
  ASSUME IInv, NEW m \in handles, NEW p \in Asked, UpdatePriority(m, p)
  PROVE  IInv'
<1>1. /\ q \in Queues /\ Linked(q, InUse(q)) /\ uses \in Uses /\ handles \subseteq Slots
      /\ sound \in BOOLEAN /\ HandlesKept
  BY DEF IInv, TypeOK
<1>2. m \in InUse(q) /\ p \in Priorities
  BY <1>1, ValueAssumption DEF HandlesKept, InUse, Priorities
<1>3. /\ q' = AppendQueue([PopQueueMsg(q, m) EXCEPT !.priority[m] = p], m)
      /\ uses' = uses /\ handles' = handles /\ sound' = sound
  BY DEF UpdatePriority
<1>4. /\ q' \in Queues /\ Linked(q', InUse(q')) /\ InUse(q') = InUse(q)
      /\ q'.used = q.used /\ q'.cycles_left = q.cycles_left
      /\ q'.priority = [q.priority EXCEPT ![m] = p]
      /\ q'.current_disp_msg = q.current_disp_msg /\ q'.msg_count = q.msg_count
  BY <1>1, <1>2, <1>3, UpdatedFields
<1>5. TypeOK' /\ HandlesKept'
  BY <1>1, <1>3, <1>4 DEF TypeOK, HandlesKept
<1>6. ASSUME Resident  PROVE GreetingStays'
  <2>1. GreetingStays /\ p = Lowest
    BY <1>6 DEF IInv, Resident
  <2>2. \A s \in InUse(q') : q'.priority[s] = Lowest
    BY <1>1, <1>4, <2>1 DEF GreetingStays, InUse, Queues
  <2>. QED
    BY <1>3, <1>4, <2>1, <2>2 DEF GreetingStays, ShownIsUsed
<1>7. ~MayPrint /\ ~MayExpire => NoneExpires'
  BY <1>4 DEF IInv, NoneExpires
<1>8. sound' /\ "print" \notin uses' => CountIsUsed'
  BY <1>3, <1>4 DEF IInv, CountIsUsed
<1>9. Resident \/ (~MayPrint /\ ~MayExpire) => sound'
  BY <1>3 DEF IInv
<1>. QED
  BY <1>4, <1>5, <1>6, <1>7, <1>8, <1>9 DEF IInv

\* A message keeps its time on the screen for one millisecond less.
LEMMA WaitKeeps ==
  ASSUME IInv, Wait
  PROVE  IInv'
<1>1. /\ q \in Queues /\ Linked(q, InUse(q))
      /\ uses' = uses /\ handles' = handles /\ sound' = sound
  BY DEF IInv, TypeOK, Wait
<1>2. q' = [q EXCEPT !.time_left_ms = q.time_left_ms - 1] /\ q.time_left_ms >= 0
  BY DEF Wait
<1>3. q' \in Queues
  <2>1. q.time_left_ms - 1 \in -1 .. DISPLAY_TIME
    BY <1>1, <1>2, ValueAssumption DEF Queues
  <2>. QED
    BY <1>1, <1>2, <2>1 DEF Queues
<1>4. /\ q'.used = q.used /\ q'.cycles_left = q.cycles_left /\ q'.priority = q.priority
      /\ q'.current_disp_msg = q.current_disp_msg /\ q'.msg_count = q.msg_count
      /\ q'.next = q.next /\ q'.previous = q.previous
      /\ q'.message_queues = q.message_queues
  BY <1>1, <1>2 DEF Queues
<1>5. InUse(q') = InUse(q)
  BY <1>4 DEF InUse
<1>6. Linked(q', InUse(q'))
  BY <1>1, <1>4, <1>5, SameLinks
<1>7. TypeOK' /\ HandlesKept'
  BY <1>1, <1>3, <1>4 DEF IInv, TypeOK, HandlesKept
<1>8. Resident => GreetingStays'
  BY <1>1, <1>4, <1>5 DEF IInv, GreetingStays, ShownIsUsed
<1>9. ~MayPrint /\ ~MayExpire => NoneExpires'
  BY <1>4 DEF IInv, NoneExpires
<1>10. sound' /\ "print" \notin uses' => CountIsUsed'
  BY <1>1, <1>4, <1>5 DEF IInv, CountIsUsed
<1>11. Resident \/ (~MayPrint /\ ~MayExpire) => sound'
  BY <1>1 DEF IInv
<1>. QED
  BY <1>6, <1>7, <1>8, <1>9, <1>10, <1>11 DEF IInv

\* refresh_screen_msg_ms when the time is over
LEMMA ShowNextKeeps ==
  ASSUME IInv, ShowNext
  PROVE  IInv'
<1>1. /\ q \in Queues /\ Linked(q, InUse(q)) /\ uses \in Uses /\ handles \subseteq Slots
      /\ sound \in BOOLEAN /\ HandlesKept
  BY DEF IInv, TypeOK
<1>. DEFINE cur  == q.current_disp_msg
            left == IF CyclesLeft(q) > 0 THEN CyclesLeft(q) - 1 ELSE CyclesLeft(q)
            u    == IF cur = NULL THEN q ELSE [q EXCEPT !.cycles_left[cur] = left]
            n    == DispNextMessage(u)
            gone == left = 0 /\ cur # NULL
<1>2. /\ q' = IF left = 0 THEN DeleteMessage(n, cur) ELSE n
      /\ sound' = (sound /\ ~(left = 0 /\ FreesTwice(q, cur)))
      /\ uses' = uses /\ handles' = handles
  BY DEF ShowNext, UsedUp
<1>3. InUse(q) \in SUBSET Slots /\ NULL \notin Slots /\ (cur # NULL => cur \in Slots)
  BY <1>1, SlotFacts DEF InUse, Queues, Pointers
<1>4. cur # NULL => /\ CyclesLeft(q) = q.cycles_left[cur]
                    /\ left \in -128 .. 127
                    /\ q.cycles_left[cur] < 0 => left = q.cycles_left[cur]
  <2>. SUFFICES ASSUME cur # NULL
                PROVE  /\ CyclesLeft(q) = q.cycles_left[cur]
                       /\ left \in -128 .. 127
                       /\ q.cycles_left[cur] < 0 => left = q.cycles_left[cur]
    OBVIOUS
  <2>1. CyclesLeft(q) = q.cycles_left[cur] /\ q.cycles_left[cur] \in -128 .. 127
    BY <1>1, <1>3 DEF CyclesLeft, Queues
  <2>. QED
    BY <2>1
<1>. HIDE DEF left
<1>5. /\ u \in Queues /\ u.used = q.used /\ u.priority = q.priority
      /\ u.msg_count = q.msg_count /\ u.current_disp_msg = cur
      /\ u.next = q.next /\ u.previous = q.previous /\ u.message_queues = q.message_queues
      /\ \A s \in Slots : u.cycles_left[s] = IF s = cur THEN left ELSE q.cycles_left[s]
  <2>1. CASE cur = NULL
    BY <1>1, <1>3, <2>1
  <2>2. CASE cur # NULL
    <3>1. u = [q EXCEPT !.cycles_left = [q.cycles_left EXCEPT ![cur] = left]]
      BY <2>2
    <3>. HIDE DEF u
    <3>. QED
      BY <1>1, <1>3, <1>4, <2>2, <3>1 DEF Queues
  <2>. QED
    BY <2>1, <2>2
<1>. HIDE DEF u
<1>6. Linked(u, InUse(q)) /\ InUse(u) = InUse(q)
  BY <1>1, <1>5, SameLinks DEF InUse
<1>7. Displayed(u, n, InUse(q))
  BY <1>5, <1>6, DispNextMessageFields
<1>. HIDE DEF n
<1>8. InUse(n) = InUse(q)
  BY <1>5, <1>7 DEF Displayed, InUse
<1>9. GetNextDispMsg(u) # NULL => GetNextDispMsg(u) \in InUse(q)
  BY <1>5, <1>6, NextIsLinked
<1>10. ~gone => /\ q' = n /\ InUse(q') = InUse(q) /\ q'.msg_count = q.msg_count
                /\ q'.current_disp_msg = GetNextDispMsg(u)
  <2>1. ~gone => q' = n
    BY <1>2 DEF DeleteMessage
  <2>. QED
    BY <1>5, <1>7, <1>8, <2>1 DEF Displayed
<1>11. gone => Deleted(n, q', cur)
  BY <1>2, <1>3, <1>7, <1>8, DeleteMessageFields DEF Displayed
<1>12. gone => /\ InUse(q') = InUse(q) \ {cur} /\ q'.msg_count = (q.msg_count - 1) % 256
               /\ GetNextDispMsg(u) # cur => q'.current_disp_msg = GetNextDispMsg(u)
  BY <1>5, <1>7, <1>8, <1>11 DEF Displayed, Deleted
<1>13. /\ q' \in Queues /\ Linked(q', InUse(q')) /\ q'.priority = q.priority
       /\ \A s \in Slots : q'.cycles_left[s] = IF s = cur THEN left ELSE q.cycles_left[s]
  BY <1>5, <1>7, <1>8, <1>10, <1>11 DEF Displayed, Deleted
<1>. HIDE DEF gone
<1>14. \A s \in Slots : /\ q'.used[s] <=> s \in InUse(q')
                        /\ q.used[s] <=> s \in InUse(q)
  BY DEF InUse
<1>15. TypeOK'
  BY <1>1, <1>2, <1>13 DEF TypeOK
\* A message that never expires is not the one that goes.
<1>16. ASSUME NEW s \in InUse(q), q.cycles_left[s] < 0
       PROVE  s \in InUse(q') /\ q'.cycles_left[s] = q.cycles_left[s] /\ (gone => s # cur)
  <2>1. s \in Slots /\ q.cycles_left[s] \in Int
    BY <1>1, <1>3 DEF Queues
  <2>2. s = cur => left = q.cycles_left[s] /\ left # 0
    BY <1>3, <1>4, <1>16, <2>1
  <2>3. gone => s # cur
    BY <2>2 DEF gone
  <2>4. q'.cycles_left[s] = q.cycles_left[s]
    BY <1>13, <2>1, <2>2
  <2>. QED
    BY <1>10, <1>12, <2>3, <2>4
<1>17. HandlesKept'
  <2>1. \A s \in handles : s \in Slots /\ s \in InUse(q) /\ q.cycles_left[s] = -1
    BY <1>1, <1>14 DEF HandlesKept
  <2>2. \A s \in handles : q.cycles_left[s] < 0
    BY <2>1
  <2>. QED
    BY <1>2, <1>14, <1>16, <2>1, <2>2 DEF HandlesKept
<1>18. ASSUME Resident  PROVE GreetingStays' /\ (gone => cur \in InUse(q))
  <2>1. GreetingStays
    BY <1>18 DEF IInv
  <2>2. 1 \in Slots /\ 1 \in InUse(q) /\ q.cycles_left[1] = -1 /\ q.cycles_left[1] < 0
    BY <2>1, SlotAssumption DEF GreetingStays, InUse, Slots
  <2>3. /\ 1 \in InUse(q') /\ q'.cycles_left[1] = -1 /\ 1 \notin handles'
        /\ gone => 1 # cur
    BY <1>2, <1>16, <2>1, <2>2 DEF GreetingStays
  <2>4. cur # NULL => cur \in InUse(q)
    BY <1>3, <2>1 DEF GreetingStays, ShownIsUsed, InUse
  <2>5. \A s \in InUse(q') : q'.priority[s] = Lowest
    BY <1>10, <1>12, <1>13, <2>1 DEF GreetingStays
  <2>6. gone => cur \in InUse(q) /\ q.priority[1] = q.priority[cur]
    BY <2>1, <2>2, <2>4 DEF gone, GreetingStays
  <2>7. gone => GetNextDispMsg(u) # cur
    BY <1>5, <1>6, <2>2, <2>3, <2>6, NextIsOther
  <2>8. q'.current_disp_msg # NULL => q'.current_disp_msg \in InUse(q')
    BY <1>9, <1>10, <1>12, <2>7
  <2>9. ShownIsUsed'
    BY <2>8 DEF ShownIsUsed, InUse
  <2>10. q'.used[1]
    BY <1>14, <2>2, <2>3
  <2>. QED
    BY <2>3, <2>5, <2>6, <2>9, <2>10 DEF GreetingStays
<1>19. ASSUME ~MayPrint, ~MayExpire  PROVE NoneExpires' /\ ~gone
  <2>1. NoneExpires
    BY <1>19 DEF IInv
  <2>2. cur # NULL => q.cycles_left[cur] \in Int /\ q.cycles_left[cur] < 0
    <3>1. cur # NULL => q.cycles_left[cur] < 0
      BY <1>3, <2>1 DEF NoneExpires
    <3>2. cur # NULL => q.cycles_left[cur] \in Int
      BY <1>1, <1>3 DEF Queues
    <3>. QED
      BY <3>1, <3>2
  <2>3. ~gone
    BY <1>4, <2>2 DEF gone
  <2>4. \A s \in Slots : s \in InUse(q) => q'.cycles_left[s] < 0
    BY <1>14, <1>16, <2>1 DEF NoneExpires
  <2>5. q'.current_disp_msg # NULL => q'.current_disp_msg \in InUse(q)
    BY <1>9, <1>10, <2>3
  <2>6. InUse(q') = InUse(q)
    BY <1>10, <2>3
  <2>7. NoneExpires'
    BY <1>3, <1>14, <2>4, <2>5, <2>6 DEF NoneExpires
  <2>. QED
    BY <2>3, <2>7
<1>20. sound' <=> sound /\ ~(gone /\ cur \notin InUse(q))
  BY <1>1, <1>2, <1>3 DEF FreesTwice, gone, InUse
<1>21. ASSUME sound', "print" \notin uses'  PROVE CountIsUsed'
  <2>1. q.msg_count = Cardinality(InUse(q)) /\ (gone => cur \in InUse(q))
    BY <1>2, <1>20, <1>21 DEF IInv, CountIsUsed
  <2>2. CASE gone
    BY <1>3, <1>12, <2>1, <2>2, CountDown DEF CountIsUsed
  <2>3. CASE ~gone
    BY <1>10, <2>1, <2>3 DEF CountIsUsed
  <2>. QED
    BY <2>2, <2>3
<1>22. Resident \/ (~MayPrint /\ ~MayExpire) => sound'
  BY <1>18, <1>19, <1>20 DEF IInv
<1>. QED
  BY <1>13, <1>15, <1>17, <1>18, <1>19, <1>21, <1>22 DEF IInv

-----------------------------------------------------------------------------
(* The theorems.  The application of this repository satisfies each of the *)
(* conditions: it leaves two greetings on the screen, asks for the lowest  *)
(* priority only, prints nothing once and repeats for ever.                *)

LEMMA NextInvariant ==
  ASSUME IInv, Resident \/ ~MayPrint, [Next]_vars
  PROVE  IInv'
<1>1. CASE UNCHANGED vars
  BY <1>1 DEF vars, IInv, TypeOK, HandlesKept, GreetingStays, ShownIsUsed, NoneExpires, CountIsUsed
<1>2. CASE Wait
  BY <1>2, WaitKeeps
<1>3. CASE ShowNext
  BY <1>3, ShowNextKeeps
<1>4. ASSUME NEW p \in Asked, NewMessage(p)  PROVE IInv'
  <2>1. FirstFree \in Slots /\ FirstFree \notin InUse(q)
    BY <1>4, FreeFound DEF NewMessage
  <2>. QED
    BY <1>4, <2>1, QueuedKeeps DEF NewMessage
<1>5. ASSUME NEW p \in Asked, NEW c \in Repeats, PrintMessageRepeat(c, p)  PROVE IInv'
  <2>1. FirstFree \in Slots /\ FirstFree \notin InUse(q)
    BY <1>5, FreeFound DEF PrintMessageRepeat
  <2>. QED
    BY <1>5, <2>1, QueuedKeeps DEF PrintMessageRepeat
<1>6. CASE PrintMessage
  BY <1>6, PrintKeeps
<1>7. ASSUME NEW m \in handles, Delete(m)  PROVE IInv'
  BY <1>7, DeleteKeeps
<1>8. ASSUME NEW m \in handles, NEW p \in Asked, UpdatePriority(m, p)  PROVE IInv'
  BY <1>8, UpdateKeeps
<1>. QED
  BY <1>1, <1>2, <1>3, <1>4, <1>5, <1>6, <1>7, <1>8 DEF Next, Refresh, Calls

\* The lists, the handles and what is on the screen fit together for ever, if
\* print_message is used only where a message stays on the screen for it.
THEOREM InductiveInvariant ==
  ASSUME Resident \/ ~MayPrint
  PROVE  Spec => []IInv
<1>1. Init => IInv
  BY InitInvariant
<1>2. IInv /\ [Next]_vars => IInv'
  BY NextInvariant
<1>. QED
  BY <1>1, <1>2, PTL DEF Spec

\* No call leaves a pointer, a count or a time outside its range: append_queue
\* always finds an end to link to.
THEOREM TypeCorrect ==
  ASSUME Resident \/ ~MayPrint
  PROVE  Spec => []TypeOK
<1>1. IInv => TypeOK
  BY DEF IInv
<1>. QED
  BY <1>1, InductiveInvariant, PTL

LEMMA LinkedAreLists ==
  ASSUME q \in Queues, Linked(q, InUse(q))
  PROVE  ListsHoldMessages
<1>1. ASSUME NEW p \in Priorities, q.message_queues[p] # NULL
      PROVE  q.previous[q.message_queues[p]] = NULL /\ Tails(q, q.message_queues[p]) # {}
  BY <1>1, ChainEnds DEF Linked
<1>2. ASSUME NEW p \in Priorities, NEW s \in Chain(q, q.message_queues[p])
      PROVE  /\ q.used[s] /\ q.priority[s] = p
             /\ q.next[s] # NULL => q.previous[q.next[s]] = s
  <2>1. s \in InUse(q) /\ q.priority[s] = p
    BY ChainLinked
  <2>. QED
    BY <2>1 DEF Linked, InUse
<1>3. ASSUME NEW s \in Slots, q.used[s]
      PROVE  s \in Chain(q, q.message_queues[q.priority[s]])
  BY <1>3 DEF Linked, InUse
<1>. QED
  BY <1>1, <1>2, <1>3 DEF ListsHoldMessages

\* The lists end, `previous` undoes `next`, and they hold each message in use
\* under its priority (append_queue, insert_queue_next, pop_queue_msg).
THEOREM ListsWhole ==
  ASSUME Resident \/ ~MayPrint
  PROVE  Spec => []ListsHoldMessages
<1>1. IInv => ListsHoldMessages
  BY LinkedAreLists DEF IInv, TypeOK
<1>. QED
  BY <1>1, InductiveInvariant, PTL

\* msg_count counts the messages in use, for an application that prints none
\* by print_message, if its messages stay or there is one that does.
THEOREM CountRight ==
  ASSUME ~MayPrint, Resident \/ ~MayExpire
  PROVE  Spec => []CountIsUsed
<1>1. IInv => CountIsUsed
  BY DEF IInv, TypeOK, MayPrint
<1>. QED
  BY <1>1, InductiveInvariant, PTL

\* Where a greeting stays, the message on the screen is never one that
\* delete_message has freed.
THEOREM ShownInUse ==
  ASSUME Resident
  PROVE  Spec => []ShownIsUsed
<1>1. IInv => ShownIsUsed
  BY DEF IInv, GreetingStays
<1>. QED
  BY <1>1, InductiveInvariant, PTL

\* No buffer is freed twice, if a greeting stays or nothing goes by itself.
THEOREM NoneFreedTwice ==
  ASSUME Resident \/ (~MayPrint /\ ~MayExpire)
  PROVE  Spec => []FreedOnce
<1>1. IInv => FreedOnce
  BY DEF IInv, FreedOnce
<1>. QED
  BY <1>1, InductiveInvariant, PTL

=============================================================================
