---------------------------- MODULE EventManager ----------------------------
(***************************************************************************)
(* The event manager of the virtual machine (vm/event.cpp): MAX_EVENT      *)
(* handles, chained by the same next pointer either in the free list (a    *)
(* stack) or in the fire list (doubly linked, sorted by expired_clock).    *)
(* Devices register and cancel events between updates and from inside the  *)
(* callbacks that update_event makes.                                      *)
(***************************************************************************)
EXTENDS EventBase, Sequences, FiniteSets, FiniteSetsExt

CONSTANT MaxEvent (* MAX_EVENT: 64 in the code *)

ASSUME ManagerAssumption == MaxEvent \in Nat \ {0}

Slots == 0 .. MaxEvent - 1

VARIABLES
  event,           (* the handles; their field born is a history field,    *)
                   (* the clock a loop event was registered at             *)
  firstFreeEvent,  (* top of the free stack                                *)
  firstFireEvent,  (* head of the fire list                                *)
  eventClocks,     (* the current clock                                    *)
  goal,            (* event_clocks_tmp of a running update_event, or NULL  *)
  calling          (* the device inside event_callback, or NULL            *)

vars == <<event, firstFreeEvent, firstFireEvent, eventClocks, goal, calling>>

DeviceRuns == goal = NULL \/ calling # NULL

(* The slots met from h along next. Without a cycle at most MaxEvent.      *)
Chain(ev, h) ==
  LET at[n \in 0 .. MaxEvent] ==
        IF n = 0 THEN h
        ELSE IF at[n - 1] = NULL THEN NULL ELSE ev[at[n - 1]].next
      len == Cardinality({n \in 0 .. MaxEvent : at[n] # NULL})
  IN  [n \in 1 .. len |-> at[n - 1]]

(* Mutant: the comparison of insert_event the other way round. *)
LatestFirst(e, new) == e.expired < new.expired

(* Mutant: an event goes before those due at the same clock. *)
EqualsJumpQueue(e, new) == e.expired >= new.expired

(* The comparison of insert_event: e stays behind the new event. *)
GoesBehind(e, new) == e.expired > new.expired

(* insert_event: before the first slot that expires later, else at the end. *)
(* The result is the handles and the head of the fire list.                 *)
InsertEvent(ev, h, s) ==
  LET chain == Chain(ev, h)
      later == {n \in DOMAIN chain : GoesBehind(ev[chain[n]], ev[s])}
      after == IF later = {} THEN NULL ELSE chain[Min(later)]
      before == CASE after # NULL -> ev[after].prev
                  [] chain # <<>> /\ after = NULL -> chain[Len(chain)]
                  [] OTHER -> NULL
  IN  [head |-> IF before = NULL THEN s ELSE h,
       event |-> [r \in Slots |->
                    CASE r = s -> [ev[s] EXCEPT !.next = after,
                                                !.prev = before]
                      [] r = before -> [ev[r] EXCEPT !.next = s]
                      [] r = after -> [ev[r] EXCEPT !.prev = s]
                      [] OTHER -> ev[r]]]

(* A free handle. What the code leaves in the other fields of a freed       *)
(* handle is never read again before it is overwritten: it is blanked.     *)
FreeHandle(next) ==
  [device |-> NULL, expired |-> 0, loop |-> 0, accum |-> 0, active |-> FALSE,
   next |-> next, prev |-> NULL, born |-> 0]

Init ==
  /\ event = [s \in Slots |->
                FreeHandle(IF s + 1 < MaxEvent THEN s + 1 ELSE NULL)]
  /\ firstFreeEvent = 0
  /\ firstFireEvent = NULL
  /\ eventClocks = 0
  /\ goal = NULL
  /\ calling = NULL

(* Takes the top of the free stack and files it in the fire list. *)
Register(d, clock, loop, accum) ==
  /\ DeviceRuns
  /\ firstFreeEvent # NULL
  /\ LET s == firstFreeEvent
         claimed == [event EXCEPT ![s] =
                       [@ EXCEPT !.active = TRUE, !.device = d,
                                 !.expired = eventClocks + clock,
                                 !.loop = loop, !.accum = accum,
                                 !.born = IF loop = 0 THEN 0
                                          ELSE eventClocks]]
         filed == InsertEvent(claimed, firstFireEvent, s)
     IN  /\ firstFreeEvent' = event[s].next
         /\ event' = filed.event
         /\ firstFireEvent' = filed.head
  /\ UNCHANGED <<eventClocks, goal, calling>>

(* register_event with a period in microseconds: 1/Frac clocks are kept. *)
RegisterLoop(d, period) == Register(d, period \div Frac, period, period % Frac)

RegisterOnce(d, clock) == Register(d, clock, 0, 0)

RegisterLoopByClock(d, clock) == Register(d, clock, clock * Frac, 0)

(* Mutant: the back pointer of the next event is left as it was. *)
UnlinkForwardOnly(m, s) ==
  LET e == m.event[s] IN
  [event |-> [r \in Slots |->
      CASE r = s -> FreeHandle(m.free)
        [] r # s /\ r = e.prev -> [m.event[r] EXCEPT !.next = e.next]
        [] OTHER -> m.event[r]],
   fire |-> IF e.prev = NULL THEN e.next ELSE m.fire,
   free |-> s]

(* Unlinks a fire-list slot and pushes it on the free stack. *)
Unlink(m, s) ==
  LET e == m.event[s] IN
  [event |-> [r \in Slots |->
      CASE r = s -> FreeHandle(m.free)
        [] r # s /\ r = e.prev -> [m.event[r] EXCEPT !.next = e.next]
        [] r # s /\ r = e.next -> [m.event[r] EXCEPT !.prev = e.prev]
        [] OTHER -> m.event[r]],
   fire |-> IF e.prev = NULL THEN e.next ELSE m.fire,
   free |-> s]

Lists == [event |-> event, fire |-> firstFireEvent, free |-> firstFreeEvent]

SetLists(m) ==
  /\ event' = m.event
  /\ firstFireEvent' = m.fire
  /\ firstFreeEvent' = m.free

(* A device cancels a slot it owned last; an inactive one is left alone. *)
CancelEvent(d, s) ==
  /\ DeviceRuns
  /\ event[s].device = d
  /\ event[s].active
  /\ SetLists(Unlink(Lists, s))
  /\ UNCHANGED <<eventClocks, goal, calling>>

(* EVENT::reset cancels the events that are not loops, in slot order. *)
Reset ==
  /\ goal = NULL
  /\ LET swept[n \in 0 .. MaxEvent] ==
           IF n = 0 THEN Lists
           ELSE LET m == swept[n - 1]
                    e == m.event[n - 1]
                IN  IF e.active /\ e.loop = 0 THEN Unlink(m, n - 1) ELSE m
     IN  SetLists(swept[MaxEvent])
  /\ UNCHANGED <<eventClocks, goal, calling>>

StartUpdate(clock) ==
  /\ goal = NULL
  /\ goal' = eventClocks + clock
  /\ UNCHANGED <<event, firstFreeEvent, firstFireEvent, eventClocks, calling>>

(* Mutant: an event due at the end of the update waits for the next one. *)
HeadIsPast == firstFireEvent # NULL /\ event[firstFireEvent].expired < goal

HeadIsDue == firstFireEvent # NULL /\ event[firstFireEvent].expired <= goal

(* Mutant: accum_clocks is not reduced. *)
RearmedUnreduced(e) ==
  LET total == e.accum + e.loop
  IN  [e EXCEPT !.expired = @ + total \div Frac, !.accum = total]

(* Mutant: the fraction of a clock is dropped at each turn. *)
RearmedWholeClocks(e) ==
  [e EXCEPT !.expired = @ + e.loop \div Frac, !.accum = 0]

(* Mutant: a loop event is filed again at the clock it fired. *)
RearmedAtOnce(e) == [e EXCEPT !.accum = (e.accum + e.loop) % Frac]

(* A loop event's next expiry: whole clocks are taken, the rest is carried. *)
Rearmed(e) ==
  LET total == e.accum + e.loop
  IN  [e EXCEPT !.expired = @ + total \div Frac, !.accum = total % Frac]

(* The loop body of update_event up to the callback: pop the head, re-arm   *)
(* a loop event or free the slot, and set the clock to the popped expiry.   *)
FireHead ==
  /\ goal # NULL
  /\ calling = NULL
  /\ HeadIsDue
  /\ LET s == firstFireEvent
         e == event[s]
         rest == e.next
         popped == [r \in Slots |->
                      IF r = rest THEN [event[r] EXCEPT !.prev = NULL]
                      ELSE event[r]]
         filed == InsertEvent([popped EXCEPT ![s] = Rearmed(@)], rest, s)
         freed == [popped EXCEPT ![s] = FreeHandle(firstFreeEvent)]
     IN  /\ eventClocks' = e.expired
         /\ calling' = e.device
         /\ IF e.loop # 0
            THEN /\ event' = filed.event
                 /\ firstFireEvent' = filed.head
                 /\ UNCHANGED firstFreeEvent
            ELSE /\ event' = freed
                 /\ firstFireEvent' = rest
                 /\ firstFreeEvent' = s
  /\ UNCHANGED <<goal>>

CallbackReturns ==
  /\ calling # NULL
  /\ calling' = NULL
  /\ UNCHANGED <<event, firstFreeEvent, firstFireEvent, eventClocks, goal>>

FinishUpdate ==
  /\ goal # NULL
  /\ calling = NULL
  /\ ~HeadIsDue
  /\ eventClocks' = goal
  /\ goal' = NULL
  /\ UNCHANGED <<event, firstFreeEvent, firstFireEvent, calling>>

Next ==
  \/ \E d \in Devices, c \in Delays : RegisterOnce(d, c)
  \/ \E d \in Devices, p \in Periods : RegisterLoop(d, p)
  \/ \E d \in Devices, c \in Delays \ {0} : RegisterLoopByClock(d, c)
  \/ \E d \in Devices, s \in Slots : CancelEvent(d, s)
  \/ Reset
  \/ \E c \in Steps : eventClocks + c <= MaxClock /\ StartUpdate(c)
  \/ FireHead
  \/ CallbackReturns
  \/ FinishUpdate

Spec == Init /\ [][Next]_vars

(* An update, once begun, runs: it is a loop of one thread, whose           *)
(* callbacks return.                                                        *)
FairSpec == Spec /\ WF_vars(FireHead \/ CallbackReturns \/ FinishUpdate)

----------------------------------------------------------------------------
SlotOrNull == Slots \cup {NULL}

(* Type invariant of the handles and of the update in progress. *)
TypeOK ==
  /\ event \in [Slots -> [device : Devices \cup {NULL}, expired : Nat,
                          loop : Nat, accum : 0 .. Frac - 1,
                          active : BOOLEAN,
                          next : SlotOrNull, prev : SlotOrNull,
                          born : Nat]]
  /\ firstFreeEvent \in SlotOrNull
  /\ firstFireEvent \in SlotOrNull
  /\ eventClocks \in Nat
  /\ goal \in Nat \cup {NULL}
  /\ calling \in Devices \cup {NULL}

FireChain == Chain(event, firstFireEvent)
FreeChain == Chain(event, firstFreeEvent)
Members(chain) == {chain[n] : n \in DOMAIN chain}

(* Every handle is in exactly one of the two lists, the active ones in the *)
(* fire list, and the back pointers of the fire list are the inverse of    *)
(* its next pointers. A callback that reuses the slot just freed, a cancel *)
(* of the head, the middle or the tail, and a reset must all keep it so:   *)
(* both lists run through the same next field.                             *)
ListsPartitionSlots ==
  /\ Members(FireChain) = {s \in Slots : event[s].active}
  /\ Members(FreeChain) = {s \in Slots : ~event[s].active}
  /\ Len(FireChain) + Len(FreeChain) = MaxEvent
  /\ \A n \in DOMAIN FireChain :
       event[FireChain[n]].prev = IF n = 1 THEN NULL ELSE FireChain[n - 1]

(* The fire list is sorted and nothing on it is behind the clock, so that  *)
(* looking at the head alone finds every due event; while an update runs   *)
(* the clock stays within it.                                              *)
FireListIsTimely ==
  /\ \A m, n \in DOMAIN FireChain :
       m < n => event[FireChain[m]].expired <= event[FireChain[n]].expired
  /\ FireChain # <<>> => eventClocks <= event[FireChain[1]].expired
  /\ goal # NULL => eventClocks <= goal

(* The fractions of a clock a loop event carries over never get lost or    *)
(* counted twice: a loop event is always a whole number of periods from    *)
(* the clock it was registered at (the sound mixer's 44100 Hz event has a  *)
(* period that is not a whole number of clocks).                           *)
LoopsDoNotDrift ==
  \A s \in Slots : event[s].active /\ event[s].loop # 0 =>
    LET age == (event[s].expired - event[s].born) * Frac + event[s].accum
    IN  age % event[s].loop = 0

Position(chain, s) == CHOOSE n \in DOMAIN chain : chain[n] = s

(* Events due at the same clock fire in the order they were filed: an      *)
(* insertion, a removal or a re-arming never reorders two events that keep *)
(* their expiry, and a newly filed one goes behind those due with it.      *)
EqualsFireInOrder ==
  [][\A r, s \in Slots :
       LET kept(x) == /\ event[x].active /\ event'[x].active
                      /\ event[x].expired = event'[x].expired
                      /\ ~(calling = NULL /\ calling' # NULL
                           /\ firstFireEvent = x)
           filed(x) == event'[x].active /\ ~kept(x)
       IN  /\ kept(r) /\ kept(s)
                /\ Position(FireChain, r) < Position(FireChain, s)
              => Position(FireChain', r) < Position(FireChain', s)
           /\ kept(r) /\ filed(s) /\ event'[r].expired = event'[s].expired
              => Position(FireChain', r) < Position(FireChain', s)]_vars

(* An update ends, even when its callbacks register further events, as     *)
(* long as none is due at once (the program asks for 100 us and 1/44100 s): *)
(* a callback that registers an event due at the current clock is called   *)
(* again by the same update.                                               *)
UpdateTerminates == goal # NULL ~> goal = NULL

(* The lists implement the timers: due is the expiry with the carried      *)
(* fraction, in 1/Frac clock.                                              *)
Timers == INSTANCE EventTimers WITH
  Delays <- {c * Frac : c \in Delays},
  Periods <- Periods \cup {c * Frac : c \in Delays \ {0}},
  due <- [s \in Slots |-> IF event[s].active
                          THEN event[s].expired * Frac + event[s].accum
                          ELSE NULL],
  period <- [s \in Slots |-> event[s].loop],
  owner <- [s \in Slots |-> event[s].device],
  now <- eventClocks

ImplementsTimers == Timers!TSpec
=============================================================================
