----------------------------- MODULE ScreenQueue -----------------------------
(***************************************************************************)
(* The message queue of the OLED screen, screen_msg_buffer.c: a fixed set  *)
(* of message slots, linked by `previous` and `next` into one doubly       *)
(* linked list per priority, and the pointer to the message on the screen. *)
(* The callers run in the super-loop, so one call ends before the next     *)
(* begins; what is hard is what a long sequence of calls does to pointers  *)
(* and counters.                                                           *)
(*                                                                         *)
(* The library's state is one record `q`, and every C function that is     *)
(* called by another is an operator from such a record to the next.        *)
(***************************************************************************)
EXTENDS Integers, FiniteSets

CONSTANTS
  MAX_MSGS, MAX_MSG_PRIORITY,
  DISPLAY_TIME,    \* display_time_ms, 3000 in the code
  FlashByte,       \* what a read of NULL->cycles_left finds at address 2
  Greetings,       \* messages that loadTimers leaves on the screen for ever, 2
  Uses,            \* the sets of calls that an application may make
  Asked,           \* the priorities it asks for
  Repeats          \* the repeat_cycles it passes

ASSUME SlotAssumption == MAX_MSGS \in 1 .. 254 /\ MAX_MSG_PRIORITY \in Nat \ {0}
ASSUME ValueAssumption ==
  /\ DISPLAY_TIME \in Nat
  /\ FlashByte \in -128 .. 127
  /\ Greetings \in 0 .. MAX_MSGS
  /\ Uses \subseteq SUBSET {"new", "repeat", "print", "delete", "priority"}
  /\ Asked \subseteq 0 .. MAX_MSG_PRIORITY - 1
  /\ Repeats \subseteq -128 .. 127

VARIABLES
  q,         \* the static variables of screen_msg_buffer.c
  uses,      \* the calls that this application makes
  handles,   \* the messages the application may still refer to
  sound      \* history: no buffer was ever freed twice

vars == <<q, uses, handles, sound>>

NULL       == 0
Slots      == 1 .. MAX_MSGS
Pointers   == Slots \cup {NULL}
Priorities == 0 .. MAX_MSG_PRIORITY - 1
Lowest     == MAX_MSG_PRIORITY - 1

Queues ==
  [used : [Slots -> BOOLEAN],
   cycles_left : [Slots -> -128 .. 127],
   priority : [Slots -> Priorities],
   previous : [Slots -> Pointers],
   next : [Slots -> Pointers],
   message_queues : [Priorities -> Pointers],
   current_disp_msg : Pointers,
   msg_count : 0 .. 255,
   time_left_ms : -1 .. DISPLAY_TIME]

TypeOK ==
  /\ q \in Queues
  /\ uses \in Uses
  /\ handles \subseteq Slots
  /\ sound \in BOOLEAN

\* The state after loadTimers has queued the greetings.
Init ==
  /\ q = [used |-> [s \in Slots |-> s <= Greetings],
          cycles_left |-> [s \in Slots |-> IF s <= Greetings THEN -1 ELSE 0],
          priority |-> [s \in Slots |-> IF s <= Greetings THEN Lowest ELSE 0],
          previous |-> [s \in Slots |-> IF s <= Greetings THEN s - 1 ELSE NULL],
          next |-> [s \in Slots |-> IF s < Greetings THEN s + 1 ELSE NULL],
          message_queues |->
            [p \in Priorities |-> IF p = Lowest /\ Greetings > 0 THEN 1 ELSE NULL],
          current_disp_msg |-> NULL,
          msg_count |-> Greetings,
          time_left_ms |-> -1]
  /\ uses \in Uses
  /\ handles = {}
  /\ sound = TRUE

-----------------------------------------------------------------------------
(* The lists. *)

\* S has the slot h and, with each slot, the next one.
Closed(l, h, S) ==
  /\ h # NULL => h \in S
  /\ \A s \in S : l.next[s] # NULL => l.next[s] \in S

\* The slots met when the list that starts at h is followed.
Chain(l, h) == {s \in Slots : \A S \in SUBSET Slots : Closed(l, h, S) => s \in S}

Tails(l, h) == {s \in Chain(l, h) : l.next[s] = NULL}

\* append_queue, for a list that ends (on a cycle the C loop would not).
AppendQueue(l, m) ==
  LET head == l.message_queues[l.priority[m]]
      last == CHOOSE s \in Tails(l, head) : TRUE
      counted == [l EXCEPT !.msg_count = (@ + 1) % 256]
  IN IF head = NULL
       THEN [counted EXCEPT !.message_queues[l.priority[m]] = m,
                            !.previous[m] = NULL, !.next[m] = NULL]
       ELSE [counted EXCEPT !.next = [@ EXCEPT ![last] = m, ![m] = NULL],
                            !.previous[m] = last]

\* Faulty variant: the message after the new one is not told of it.
InsertQueueNext_OneWay(l, m) ==
  LET cur == l.current_disp_msg
  IN IF cur = NULL THEN AppendQueue(l, m)
     ELSE [l EXCEPT !.next = [@ EXCEPT ![m] = l.next[cur], ![cur] = m],
                    !.previous[m] = cur,
                    !.priority[m] = l.priority[cur]]

\* insert_queue_next
InsertQueueNext(l, m) ==
  LET cur == l.current_disp_msg
      nxt == [l.next EXCEPT ![m] = l.next[cur], ![cur] = m]
      prv == [l.previous EXCEPT ![m] = cur]
  IN IF cur = NULL THEN AppendQueue(l, m)
     ELSE [l EXCEPT !.next = nxt,
                    !.previous = IF nxt[m] # NULL THEN [prv EXCEPT ![nxt[m]] = m] ELSE prv,
                    !.priority[m] = l.priority[cur]]

\* Faulty variant: the message after the one taken out still points to it.
PopQueueMsg_OneWay(l, m) ==
  [l EXCEPT
     !.msg_count = (@ - 1) % 256,
     !.message_queues[l.priority[m]] = IF @ = m THEN l.next[m] ELSE @,
     !.next = [s \in Slots |-> IF s = m THEN NULL
                               ELSE IF s = l.previous[m] THEN l.next[m] ELSE @[s]],
     !.previous[m] = NULL]

\* pop_queue_msg
PopQueueMsg(l, m) ==
  LET before == l.previous[m]
      after  == l.next[m]
  IN [l EXCEPT
        !.msg_count = (@ - 1) % 256,
        !.message_queues[l.priority[m]] = IF @ = m THEN after ELSE @,
        !.next = [s \in Slots |-> IF s = m THEN NULL ELSE IF s = before THEN after ELSE @[s]],
        !.previous = [s \in Slots |-> IF s = m THEN NULL ELSE IF s = after THEN before ELSE @[s]]]

\* Faulty variant: the links between the messages are not followed.
GetNextDispMsg_Head(l) ==
  LET filled == {p \in Priorities : l.message_queues[p] # NULL}
  IN IF filled = {} THEN NULL
     ELSE l.message_queues[CHOOSE p \in filled : \A r \in filled : p <= r]

\* get_next_disp_msg: the next one in the list, else the head of the first
\* list that is not empty, starting from the list of the current message.
GetNextDispMsg(l) ==
  LET cur    == l.current_disp_msg
      start  == IF cur = NULL THEN 0 ELSE l.priority[cur]
      Head(i) == l.message_queues[(start + i) % MAX_MSG_PRIORITY]
      filled == {i \in Priorities : Head(i) # NULL}
  IN IF cur # NULL /\ l.next[cur] # NULL THEN l.next[cur]
     ELSE IF filled = {} THEN NULL
     ELSE Head(CHOOSE i \in filled : \A j \in filled : i <= j)

\* disp_next_message
DispNextMessage(l) ==
  LET m == GetNextDispMsg(l)
  IN [l EXCEPT !.current_disp_msg = m,
               !.time_left_ms = IF m = NULL THEN @ ELSE DISPLAY_TIME]

\* Faulty variant: the slot is not given back.
DeleteMessage_KeepsSlot(l, m) ==
  IF m = NULL THEN l
  ELSE PopQueueMsg(IF l.current_disp_msg = m THEN DispNextMessage(l) ELSE l, m)

\* delete_message
DeleteMessage(l, m) ==
  IF m = NULL THEN l
  ELSE LET shown == IF l.current_disp_msg = m THEN DispNextMessage(l) ELSE l
       IN [PopQueueMsg(shown, m) EXCEPT !.used[m] = FALSE]

\* A message is freed for the second time.
FreesTwice(l, m) == m # NULL /\ ~l.used[m]

-----------------------------------------------------------------------------
(* The calls. *)

\* get_free_msg finds the first unused slot; callers must not ask when there
\* is none.
FreeSlots == {s \in Slots : ~q.used[s]}
FirstFree == CHOOSE s \in FreeSlots : \A t \in FreeSlots : s <= t

Filled(m, cycles, p) ==
  [q EXCEPT !.used[m] = TRUE, !.cycles_left[m] = cycles, !.priority[m] = p]

\* new_message
NewMessage(p) ==
  /\ "new" \in uses /\ FreeSlots # {}
  /\ q' = AppendQueue(Filled(FirstFree, -1, p), FirstFree)
  /\ handles' = handles \cup {FirstFree}
  /\ UNCHANGED <<uses, sound>>

\* print_message_repeat
PrintMessageRepeat(cycles, p) ==
  /\ "repeat" \in uses /\ FreeSlots # {}
  /\ q' = AppendQueue(Filled(FirstFree, cycles, p), FirstFree)
  /\ UNCHANGED <<uses, handles, sound>>

\* What `current_disp_msg->cycles_left` reads, through NULL too.
CyclesLeft(l) ==
  IF l.current_disp_msg = NULL THEN FlashByte ELSE l.cycles_left[l.current_disp_msg]

\* print_message
PrintMessage ==
  /\ "print" \in uses /\ FreeSlots # {}
  /\ LET placed == InsertQueueNext(Filled(FirstFree, 1, Lowest), FirstFree)
     IN q' = IF CyclesLeft(placed) = -1 \/ placed.msg_count = 1
               THEN DispNextMessage(placed) ELSE placed
  /\ UNCHANGED <<uses, handles, sound>>

\* delete_message, called with a handle
Delete(m) ==
  /\ "delete" \in uses
  /\ q' = DeleteMessage(q, m)
  /\ handles' = handles \ {m}
  /\ sound' = (sound /\ ~FreesTwice(q, m))
  /\ UNCHANGED uses

\* update_priority
UpdatePriority(m, p) ==
  /\ "priority" \in uses
  /\ q' = AppendQueue([PopQueueMsg(q, m) EXCEPT !.priority[m] = p], m)
  /\ UNCHANGED <<uses, handles, sound>>

\* Faulty variant: counts one call too many.
Wait_Long ==
  /\ q.time_left_ms >= -1
  /\ q' = [q EXCEPT !.time_left_ms = @ - 1]
  /\ UNCHANGED <<uses, handles, sound>>

\* refresh_screen_msg_ms while a message still has time on the screen.
Wait ==
  /\ q.time_left_ms >= 0
  /\ q' = [q EXCEPT !.time_left_ms = @ - 1]
  /\ UNCHANGED <<uses, handles, sound>>

\* Faulty variant: -1, for ever, counts as used up.
UsedUp_Signed(left) == left <= 0

\* cycles_left says that the message was shown as often as asked.
UsedUp(left) == left = 0

\* refresh_screen_msg_ms when the time is over: the message has used up one of
\* its cycles, is deleted after the last one, and the next one is shown.
ShowNext ==
  /\ q.time_left_ms < 0 /\ q.msg_count > 0
  /\ LET cur  == q.current_disp_msg
         left == IF CyclesLeft(q) > 0 THEN CyclesLeft(q) - 1 ELSE CyclesLeft(q)
         used == IF cur = NULL THEN q ELSE [q EXCEPT !.cycles_left[cur] = left]
         next == DispNextMessage(used)
     IN /\ q' = IF UsedUp(left) THEN DeleteMessage(next, cur) ELSE next
        /\ sound' = (sound /\ ~(UsedUp(left) /\ FreesTwice(q, cur)))
  /\ UNCHANGED <<uses, handles>>

Refresh == Wait \/ ShowNext

Calls ==
  \/ \E p \in Asked : NewMessage(p) \/ \E c \in Repeats : PrintMessageRepeat(c, p)
  \/ PrintMessage
  \/ \E m \in handles : Delete(m) \/ \E p \in Asked : UpdatePriority(m, p)

Next == Refresh \/ Calls

Spec == Init /\ [][Next]_vars

\* updateTimers calls refresh_screen_msg_ms whenever time went by.
FairSpec == Spec /\ WF_vars(Refresh)

-----------------------------------------------------------------------------
(* Properties. *)

InUse(l) == {s \in Slots : l.used[s]}

\* The lists are lists: they end, `previous` undoes `next`, each holds the
\* messages of its priority, and between them they hold every message in use
\* (append_queue, pop_queue_msg).
ListsHoldMessages ==
  /\ \A p \in Priorities : LET h == q.message_queues[p] IN
       /\ h # NULL => q.previous[h] = NULL /\ Tails(q, h) # {}
       /\ \A s \in Chain(q, h) :
            /\ q.used[s] /\ q.priority[s] = p
            /\ q.next[s] # NULL => q.previous[q.next[s]] = s
  /\ \A s \in Slots : q.used[s] => s \in Chain(q, q.message_queues[q.priority[s]])

\* msg_count is the "count of messages used": refresh_screen_msg_ms relies on
\* it to know that there is something to show.
CountIsUsed == q.msg_count = Cardinality(InUse(q))

\* The message on the screen is one in use: delete_message, which says "if
\* this message is currently being displayed, display the next message", never
\* leaves the pointer on a message it has freed.
ShownIsUsed == q.current_disp_msg # NULL => q.used[q.current_disp_msg]

\* No message buffer is freed twice.
FreedOnce == sound

\* The slots of U, and no others, are linked: what each operation keeps.
Linked(l, U) ==
  /\ U \subseteq Slots
  /\ \A s \in Slots \ U : l.next[s] = NULL /\ l.previous[s] = NULL
  /\ \A s \in U : l.next[s] # NULL =>
       /\ l.next[s] \in U
       /\ l.previous[l.next[s]] = s /\ l.priority[l.next[s]] = l.priority[s]
  /\ \A s \in U : l.previous[s] # NULL =>
       l.previous[s] \in U /\ l.next[l.previous[s]] = s
  /\ \A p \in Priorities : LET h == l.message_queues[p] IN
       h # NULL => h \in U /\ l.priority[h] = p /\ l.previous[h] = NULL
  /\ \A s \in U : s \in Chain(l, l.message_queues[l.priority[s]])

\* A handle names a message that stays until it is deleted by that handle.
HandlesKept == \A m \in handles : q.used[m] /\ q.cycles_left[m] = -1

\* The application calls print_message; its messages expire; it is one that
\* leaves a greeting on the screen and asks for the lowest priority only.
MayPrint  == \E u \in Uses : "print" \in u
MayExpire == \E c \in Repeats : c >= 0
Resident  == Greetings > 0 /\ Asked = {Lowest}

\* With a greeting, which is never freed, behind or before it in the one list,
\* the message on the screen is freed only after another one is shown.
GreetingStays ==
  /\ ShownIsUsed
  /\ q.used[1] /\ q.cycles_left[1] = -1 /\ 1 \notin handles
  /\ \A s \in InUse(q) : q.priority[s] = Lowest

\* Messages that do not expire are never freed by refresh_screen_msg_ms.
NoneExpires ==
  \A s \in Slots : q.used[s] \/ s = q.current_disp_msg => q.cycles_left[s] < 0

\* The inductive invariant. A message that is freed twice is discounted twice,
\* and one that is printed is not counted at all (insert_queue_next,
\* pop_queue_msg); in any other case the count is right.
IInv ==
  /\ TypeOK
  /\ Linked(q, InUse(q))
  /\ HandlesKept
  /\ Resident => GreetingStays
  /\ ~MayPrint /\ ~MayExpire => NoneExpires
  /\ Resident \/ (~MayPrint /\ ~MayExpire) => sound
  /\ sound /\ "print" \notin uses => CountIsUsed

\* The screen goes through the messages "in order": every message in use is on
\* the screen again and again, as long as print_message does not spoil the count.
EveryMessageShown ==
  \A s \in Slots : q.used[s] /\ "print" \notin uses ~> q.current_disp_msg = s \/ ~q.used[s]

=============================================================================
