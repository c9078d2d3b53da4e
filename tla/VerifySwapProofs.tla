-------------------------- MODULE VerifySwapProofs ---------------------------
(***************************************************************************)
(* Files, verifications, edits and users' decisions, as many as there are: *)
(* the source is where it belongs, and what was staged is not lost.        *)
(***************************************************************************)
EXTENDS VerifySwap, SequenceTheorems, TLAPS

(* What the run of a call may be in the middle of: files that wait for the  *)
(* swap, that have no target between its two renames, whose target shows    *)
(* what was staged, and that have no target between the renames back.      *)
DueOf(row) == IF row.pc \in {"hide", "show"} THEN Range(row.swap) ELSE {}
HiddenOf(row) == IF row.pc = "show" THEN {Head(row.swap)} ELSE {}
AwayOf(row) == IF row.pc = "reinstate" THEN {Last(row.swapped)} ELSE {}
ShownOf(row) == Range(row.swapped) \ AwayOf(row)

Due == {f \in Files : \E c \in Calls : f \in DueOf(call[c])}
Hidden == {f \in Files : \E c \in Calls : f \in HiddenOf(call[c])}
Away == {f \in Files : \E c \in Calls : f \in AwayOf(call[c])}
Shown == {f \in Files : \E c \in Calls : f \in ShownOf(call[c])}

(* A call swaps each file once, and only files that it has locked.          *)
RowOK(row) ==
    /\ row \in Call
    /\ IsInjective(row.held) /\ IsInjective(row.swap) /\ IsInjective(row.swapped)
    /\ Range(row.swap) \cup Range(row.swapped) \subseteq Range(row.held)
    /\ Range(row.swap) \cap Range(row.swapped) = {}
    /\ row.pc \in {"idle", "lock"} => row.swap = <<>> /\ row.swapped = <<>>
    /\ row.pc = "idle" => row.held = <<>>
    /\ row.pc = "show" => row.swap # <<>>
    /\ row.pc = "reinstate" => row.swapped # <<>>

LocksOK ==
    /\ lock \in [Files -> Calls \cup {Free}]
    /\ call \in [Calls -> Call]
    /\ \A c \in Calls : RowOK(call[c]) /\ Range(call[c].held) = {f \in Files : lock[f] = c}

-----------------------------------------------------------------------------
(* Sequences without repetition                                            *)

(* The empty one.                                                          *)
LEMMA NoneListed == Range(<<>>) = {} /\ IsInjective(<<>>)
  BY DEF Range, IsInjective

(* Taking the first element away.                                          *)
LEMMA WithoutHead ==
  ASSUME NEW S, NEW s \in Seq(S), s # <<>>, IsInjective(s)
  PROVE  /\ Head(s) \in Range(s) /\ Head(s) \in S
         /\ Tail(s) \in Seq(S) /\ IsInjective(Tail(s))
         /\ Range(Tail(s)) = Range(s) \ {Head(s)}
<1>1. /\ Len(s) \in Nat \ {0} /\ DOMAIN s = 1..Len(s)
      /\ Head(s) = s[1]
  BY EmptySeq, LenProperties
<1>2. /\ Head(s) \in S /\ Tail(s) \in Seq(S)
      /\ Len(Tail(s)) = Len(s) - 1
      /\ \A i \in 1..Len(Tail(s)) : Tail(s)[i] = s[i + 1]
  BY HeadTailProperties
<1>3. DOMAIN Tail(s) = 1..(Len(s) - 1)
  BY <1>2, LenProperties
<1>4. \A i, j \in 1..Len(s) : s[i] = s[j] => i = j
  BY <1>1 DEF IsInjective
<1>5. IsInjective(Tail(s))
  BY <1>1, <1>2, <1>3, <1>4 DEF IsInjective
<1>6. Range(Tail(s)) \subseteq Range(s) \ {Head(s)}
  BY <1>1, <1>2, <1>3, <1>4 DEF Range
<1>7. ASSUME NEW x \in Range(s) \ {Head(s)} PROVE x \in Range(Tail(s))
  <2>1. PICK i \in 1..Len(s) : x = s[i] /\ i # 1
    BY <1>1 DEF Range
  <2>2. i - 1 \in 1..(Len(s) - 1) /\ Tail(s)[i - 1] = x
    BY <1>1, <1>2, <2>1
  <2>. QED
    BY <1>3, <2>2 DEF Range
<1>8. Head(s) \in Range(s)
  BY <1>1 DEF Range
<1>. QED
  BY <1>2, <1>5, <1>6, <1>7, <1>8

(* Taking the last element away.                                           *)
LEMMA WithoutLast ==
  ASSUME NEW S, NEW s \in Seq(S), s # <<>>, IsInjective(s)
  PROVE  /\ Last(s) \in Range(s) /\ Last(s) \in S
         /\ Front(s) \in Seq(S) /\ IsInjective(Front(s))
         /\ Range(Front(s)) = Range(s) \ {Last(s)}
<1>1. /\ Len(s) \in Nat \ {0} /\ DOMAIN s = 1..Len(s)
      /\ Last(s) = s[Len(s)]
      /\ \A i \in 1..Len(s) : s[i] \in S
  BY EmptySeq, LenProperties DEF Last
<1>2. /\ Front(s) \in Seq(S)
      /\ Len(Front(s)) = Len(s) - 1
      /\ \A i \in 1..(Len(s) - 1) : Front(s)[i] = s[i]
  <2>1. \A i \in 1..(Len(s) - 1) : s[i] \in S
    BY <1>1
  <2>2. /\ SubSeq(s, 1, Len(s) - 1) \in Seq(S)
        /\ Len(SubSeq(s, 1, Len(s) - 1)) =
             IF 1 <= Len(s) - 1 THEN (Len(s) - 1) - 1 + 1 ELSE 0
        /\ \A i \in 1..((Len(s) - 1) - 1 + 1) :
             SubSeq(s, 1, Len(s) - 1)[i] = s[1 + i - 1]
    BY <1>1, <2>1, SubSeqProperties
  <2>. QED
    BY <1>1, <2>2 DEF Front
<1>3. DOMAIN Front(s) = 1..(Len(s) - 1)
  BY <1>2, LenProperties
<1>4. \A i, j \in 1..Len(s) : s[i] = s[j] => i = j
  BY <1>1 DEF IsInjective
<1>5. IsInjective(Front(s))
  BY <1>1, <1>2, <1>3, <1>4 DEF IsInjective
<1>6. Range(Front(s)) \subseteq Range(s) \ {Last(s)}
  BY <1>1, <1>2, <1>3, <1>4 DEF Range
<1>7. ASSUME NEW x \in Range(s) \ {Last(s)} PROVE x \in Range(Front(s))
  <2>1. PICK i \in 1..Len(s) : x = s[i] /\ i # Len(s)
    BY <1>1 DEF Range
  <2>2. i \in 1..(Len(s) - 1)
    <3>1. Len(s) \in Nat
      BY LenProperties
    <3>2. i # Len(s)
      BY <2>1
    <3>. QED
      BY <3>1, <3>2
  <2>3. Front(s)[i] = x
    BY <1>2, <2>1, <2>2
  <2>. QED
    BY <1>3, <2>2, <2>3 DEF Range
<1>8. Last(s) \in Range(s)
  BY <1>1 DEF Range
<1>. QED
  BY <1>1, <1>2, <1>5, <1>6, <1>7, <1>8

(* Adding a new element at the end.                                        *)
LEMMA WithOneMore ==
  ASSUME NEW S, NEW s \in Seq(S), NEW x \in S, IsInjective(s), x \notin Range(s)
  PROVE  /\ Append(s, x) \in Seq(S) /\ IsInjective(Append(s, x))
         /\ Range(Append(s, x)) = Range(s) \cup {x}
<1>1. /\ Append(s, x) \in Seq(S)
      /\ Len(Append(s, x)) = Len(s) + 1
      /\ \A i \in 1..Len(s) : Append(s, x)[i] = s[i]
      /\ Append(s, x)[Len(s) + 1] = x
  BY AppendProperties
<1>2. /\ Len(s) \in Nat /\ DOMAIN s = 1..Len(s)
      /\ DOMAIN Append(s, x) = 1..(Len(s) + 1)
  BY <1>1, LenProperties
<1>3. /\ \A i, j \in 1..Len(s) : s[i] = s[j] => i = j
      /\ \A i \in 1..Len(s) : s[i] # x
  BY <1>2 DEF IsInjective, Range
<1>4. \A i \in 1..(Len(s) + 1) : i \in 1..Len(s) \/ i = Len(s) + 1
  BY <1>2
<1>5. IsInjective(Append(s, x))
  BY <1>1, <1>2, <1>3, <1>4 DEF IsInjective
<1>6. Range(Append(s, x)) \subseteq Range(s) \cup {x}
  BY <1>1, <1>2, <1>4 DEF Range
<1>7. Range(s) \cup {x} \subseteq Range(Append(s, x))
  <2>1. Len(s) + 1 \in 1..(Len(s) + 1) /\ \A i \in 1..Len(s) : i \in 1..(Len(s) + 1)
    BY <1>2
  <2>. QED
    BY <1>1, <1>2, <2>1 DEF Range
<1>. QED
  BY <1>1, <1>5, <1>6, <1>7

(* Picking from a sequence, in its order.                                   *)
LEMMA PickedInOrder ==
  ASSUME NEW S, NEW all \in Seq(S), IsInjective(all), NEW keep \in SUBSET S,
         NEW s \in InOrder(all, keep)
  PROVE  s \in Seq(S) /\ IsInjective(s) /\ Range(s) = keep
<1>1. PICK n \in 0..Len(all) : s \in [1..n -> keep]
  BY DEF InOrder
<1>2. s \in Seq(S)
  <2>1. Len(all) \in Nat
    BY LenProperties
  <2>2. n \in Nat /\ s \in [1..n -> S]
    BY <1>1, <2>1
  <2>. QED
    BY <2>2, SeqDef
<1>3. ASSUME NEW i \in DOMAIN s, NEW j \in DOMAIN s, i < j PROVE s[i] # s[j]
  <2>1. PICK k \in DOMAIN all, l \in DOMAIN all : k < l /\ all[k] = s[i] /\ all[l] = s[j]
    BY <1>3 DEF InOrder
  <2>2. k \in Nat /\ l \in Nat
    BY LenProperties
  <2>3. k # l
    BY <2>1, <2>2
  <2>. QED
    BY <2>1, <2>3 DEF IsInjective
<1>4. IsInjective(s)
  <2>. SUFFICES ASSUME NEW i \in DOMAIN s, NEW j \in DOMAIN s, s[i] = s[j]
                PROVE  i = j
    BY DEF IsInjective
  <2>1. i \in Nat /\ j \in Nat
    BY <1>1
  <2>. QED
    BY <1>3, <2>1
<1>. QED
  BY <1>2, <1>4 DEF InOrder

-----------------------------------------------------------------------------
(* The locks, and where each file is in the swap                           *)

(* What a call works on it has locked.                                     *)
LEMMA OwnFiles ==
  ASSUME LocksOK, NEW c \in Calls
  PROVE  /\ RowOK(call[c])
         /\ \A f \in Range(call[c].held) : f \in Files /\ lock[f] = c
         /\ DueOf(call[c]) \subseteq Range(call[c].held)
         /\ HiddenOf(call[c]) \subseteq DueOf(call[c])
         /\ AwayOf(call[c]) \subseteq Range(call[c].swapped)
         /\ ShownOf(call[c]) \subseteq Range(call[c].swapped)
         /\ DueOf(call[c]) \cap Range(call[c].swapped) = {}
         /\ Range(call[c].swapped) \subseteq Range(call[c].held)
<1>1. RowOK(call[c]) /\ \A f \in Range(call[c].held) : f \in Files /\ lock[f] = c
  BY DEF LocksOK
<1>2. call[c].swap \in Seq(Files) /\ call[c].swapped \in Seq(Files)
  BY DEF LocksOK, Call
<1>3. HiddenOf(call[c]) \subseteq DueOf(call[c])
  BY <1>1, <1>2, WithoutHead DEF HiddenOf, DueOf, RowOK
<1>4. AwayOf(call[c]) \subseteq Range(call[c].swapped)
  <2>1. call[c].pc = "reinstate" => Last(call[c].swapped) \in Range(call[c].swapped)
    <3>. SUFFICES ASSUME call[c].pc = "reinstate"
                  PROVE  Last(call[c].swapped) \in Range(call[c].swapped)
      OBVIOUS
    <3>1. call[c].swapped # <<>> /\ IsInjective(call[c].swapped)
      BY <1>1 DEF RowOK
    <3>. QED
      BY <1>2, <3>1, WithoutLast
  <2>. QED
    BY <2>1 DEF AwayOf
<1>. QED
  BY <1>1, <1>3, <1>4 DEF RowOK, DueOf, ShownOf

(* A file is in one place.                                                 *)
LEMMA OnePlace ==
  ASSUME LocksOK
  PROVE  /\ Hidden \subseteq Due
         /\ Due \cap Away = {} /\ Due \cap Shown = {} /\ Away \cap Shown = {}
         /\ \A f \in Due \cup Away \cup Shown : f \in Files /\ lock[f] # Free
         /\ \A f \in Files : Swapped(f) \/ Between(f) <=> f \in Hidden \cup Away \cup Shown
<1>1. \A c, d \in Calls : c # d => Range(call[c].held) \cap Range(call[d].held) = {}
  BY DEF LocksOK
<1>2. \A c \in Calls : AwayOf(call[c]) \cap ShownOf(call[c]) = {}
  BY DEF ShownOf
<1>3. Hidden \subseteq Due
  BY OwnFiles DEF Hidden, Due
<1>4. Due \cap Away = {} /\ Due \cap Shown = {}
  BY <1>1, OwnFiles DEF Due, Away, Shown
<1>5. Away \cap Shown = {}
  <2>. SUFFICES ASSUME NEW f \in Files, NEW c \in Calls, NEW d \in Calls,
                       f \in AwayOf(call[c]), f \in ShownOf(call[d])
                PROVE  FALSE
    BY DEF Away, Shown
  <2>1. c = d
    BY <1>1, OwnFiles
  <2>. QED
    BY <1>2, <2>1
<1>6. \A f \in Due \cup Away \cup Shown : f \in Files /\ lock[f] # Free
  BY OwnFiles, AbsentAssumption DEF Due, Away, Shown
<1>7. ASSUME NEW f \in Files
      PROVE  Swapped(f) <=> f \in Away \cup Shown
  <2>1. \A c \in Calls : f \in Range(call[c].swapped)
                           <=> f \in AwayOf(call[c]) \cup ShownOf(call[c])
    BY OwnFiles DEF ShownOf
  <2>. QED
    BY <2>1 DEF Swapped, Away, Shown
<1>8. ASSUME NEW f \in Files
      PROVE  Between(f) <=> f \in Hidden
  BY DEF Between, Hidden, HiddenOf
<1>. QED
  BY <1>3, <1>4, <1>5, <1>6, <1>7, <1>8

(* The files that the call of a row works on are where the row says.        *)
Moved(c, row) ==
    /\ Due' = (Due \ DueOf(call[c])) \cup DueOf(row)
    /\ Hidden' = (Hidden \ HiddenOf(call[c])) \cup HiddenOf(row)
    /\ Away' = (Away \ AwayOf(call[c])) \cup AwayOf(row)
    /\ Shown' = (Shown \ ShownOf(call[c])) \cup ShownOf(row)

(* A step of one call, with the files it has locked as they were.           *)
LEMMA RowChange ==
  ASSUME LocksOK, NEW c \in Calls, NEW row, RowOK(row), row.held = call[c].held,
         call' = [call EXCEPT ![c] = row], lock' = lock
  PROVE  LocksOK' /\ Moved(c, row)
<1>1. /\ call \in [Calls -> Call] /\ row \in Call
      /\ call'[c] = row /\ \A d \in Calls \ {c} : call'[d] = call[d]
      /\ call' \in [Calls -> Call]
  BY DEF LocksOK, RowOK
<1>2. LocksOK'
  <2>1. ASSUME NEW d \in Calls
        PROVE  /\ RowOK(call[d])'
               /\ Range(call'[d].held) = {f \in Files : lock'[f] = d}
    <3>1. CASE d = c
      BY <1>1, <3>1 DEF LocksOK, RowOK
    <3>2. CASE d # c
      BY <1>1, <3>2 DEF LocksOK, RowOK
    <3>. QED
      BY <3>1, <3>2
  <2>. QED
    BY <1>1, <2>1 DEF LocksOK
<1>3. /\ \A f \in Range(row.held) : f \in Files /\ lock[f] = c
      /\ DueOf(row) \cup HiddenOf(row) \cup AwayOf(row) \cup ShownOf(row) \subseteq Range(row.held)
  <2>1. row.swap \in Seq(Files) /\ row.swapped \in Seq(Files)
    BY DEF RowOK, Call
  <2>2. HiddenOf(row) \subseteq DueOf(row)
    BY <2>1, WithoutHead DEF HiddenOf, DueOf, RowOK
  <2>3. AwayOf(row) \subseteq Range(row.swapped)
    <3>1. row.pc = "reinstate" => row.swapped # <<>> /\ IsInjective(row.swapped)
      BY DEF RowOK
    <3>2. row.pc = "reinstate" => Last(row.swapped) \in Range(row.swapped)
      BY <2>1, <3>1, WithoutLast
    <3>. QED
      BY <3>2 DEF AwayOf
  <2>. QED
    BY <2>2, <2>3, OwnFiles DEF RowOK, DueOf, ShownOf
<1>4. \A d \in Calls \ {c} : \A f \in Files :
        f \in DueOf(call[d]) \cup HiddenOf(call[d]) \cup AwayOf(call[d]) \cup ShownOf(call[d]) =>
          lock[f] # c
  BY OwnFiles
<1>5. DueOf(call[c]) \cup HiddenOf(call[c]) \cup AwayOf(call[c]) \cup ShownOf(call[c])
        \subseteq {f \in Files : lock[f] = c}
  BY OwnFiles
<1>6. Due' = (Due \ DueOf(call[c])) \cup DueOf(row)
  BY <1>1, <1>3, <1>4, <1>5 DEF Due, DueOf
<1>7. Hidden' = (Hidden \ HiddenOf(call[c])) \cup HiddenOf(row)
  BY <1>1, <1>3, <1>4, <1>5 DEF Hidden, HiddenOf
<1>8. Away' = (Away \ AwayOf(call[c])) \cup AwayOf(row)
  BY <1>1, <1>3, <1>4, <1>5 DEF Away, AwayOf
<1>9. Shown' = (Shown \ ShownOf(call[c])) \cup ShownOf(row)
  BY <1>1, <1>3, <1>4, <1>5 DEF Shown, ShownOf, AwayOf
<1>. QED
  BY <1>2, <1>6, <1>7, <1>8, <1>9 DEF Moved

(* Nothing happens to the calls.                                           *)
LEMMA CallsStay ==
  ASSUME LocksOK, UNCHANGED <<call, lock>>
  PROVE  LocksOK' /\ UNCHANGED <<Due, Hidden, Away, Shown>>
<1>1. LocksOK'
  BY DEF LocksOK, RowOK
<1>2. UNCHANGED <<Due, Hidden, Away, Shown>>
  BY DEF Due, Hidden, Away, Shown, DueOf, HiddenOf, AwayOf, ShownOf
<1>. QED
  BY <1>1, <1>2

(* At first nothing is locked.                                             *)
LEMMA InitLocks ==
  ASSUME Init
  PROVE  LocksOK /\ Due = {} /\ Hidden = {} /\ Away = {} /\ Shown = {}
<1>1. NoCall \in Call /\ RowOK(NoCall)
  <2>1. NoCall \in Call
    BY EmptySeq DEF NoCall, Call
  <2>. QED
    BY <2>1, NoneListed DEF NoCall, RowOK
<1>2. \A c \in Calls : call[c] = NoCall
  BY DEF Init
<1>3. LocksOK
  BY <1>1, <1>2, NoneListed, AbsentAssumption DEF Init, LocksOK, NoCall
<1>4. DueOf(NoCall) = {} /\ HiddenOf(NoCall) = {} /\ AwayOf(NoCall) = {} /\ ShownOf(NoCall) = {}
  BY NoneListed DEF NoCall, DueOf, HiddenOf, AwayOf, ShownOf
<1>. QED
  BY <1>2, <1>3, <1>4 DEF Due, Hidden, Away, Shown

(* A verification is asked for.                                            *)
LEMMA BeginMoves ==
  ASSUME LocksOK, NEW c \in Calls, Begin(c)
  PROVE  LocksOK' /\ UNCHANGED <<Due, Hidden, Away, Shown>>
<1>a. PICK requested \in SUBSET Names \ {{}} :
        \E todo \in InOrder(NameOrder, requested) :
          call' = [call EXCEPT ![c] = [NoCall EXCEPT !.pc = "lock", !.todo = todo]]
  BY DEF Begin
<1>1. PICK todo \in InOrder(NameOrder, requested) :
        call' = [call EXCEPT ![c] = [NoCall EXCEPT !.pc = "lock", !.todo = todo]]
  BY <1>a
<1>. DEFINE row == [NoCall EXCEPT !.pc = "lock", !.todo = todo]
<1>2. todo \in Seq(Names)
  BY PickedInOrder, NamesAssumption
<1>3. /\ row.pc = "lock" /\ row.todo = todo /\ row.ok = TRUE
      /\ row.held = <<>> /\ row.swap = <<>> /\ row.swapped = <<>>
  BY DEF NoCall
<1>4. row \in Call
  <2>1. NoCall \in Call
    BY EmptySeq DEF NoCall, Call
  <2>. QED
    BY <1>2, <2>1 DEF Call
<1>5. RowOK(row)
  BY <1>3, <1>4, NoneListed DEF RowOK
<1>6. call[c].pc = "idle" /\ call[c].held = <<>> /\ call[c].swap = <<>> /\ call[c].swapped = <<>>
  BY DEF Begin, LocksOK, RowOK
<1>7. lock' = lock /\ call' = [call EXCEPT ![c] = row]
  BY <1>1 DEF Begin
<1>. HIDE DEF row
<1>8. /\ DueOf(row) = {} /\ HiddenOf(row) = {} /\ AwayOf(row) = {} /\ ShownOf(row) = {}
      /\ DueOf(call[c]) = {} /\ HiddenOf(call[c]) = {} /\ AwayOf(call[c]) = {}
      /\ ShownOf(call[c]) = {}
  BY <1>3, <1>6, NoneListed DEF DueOf, HiddenOf, AwayOf, ShownOf
<1>9. LocksOK' /\ Moved(c, row)
  BY <1>3, <1>5, <1>6, <1>7, RowChange
<1>. QED
  BY <1>8, <1>9 DEF Moved

(* A lock is taken.                                                        *)
LEMMA AcquireMoves ==
  ASSUME LocksOK, NEW c \in Calls, Acquire(c)
  PROVE  /\ LocksOK' /\ UNCHANGED <<Due, Hidden, Away, Shown>>
         /\ FileOf[Head(call[c].todo)] \in Files
<1>. DEFINE f == FileOf[Head(call[c].todo)]
            row == [call[c] EXCEPT !.todo = Tail(@), !.held = Append(@, f)]
<1>1. /\ RowOK(call[c]) /\ call[c] \in Call /\ Range(call[c].held) = {g \in Files : lock[g] = c}
      /\ call[c].pc = "lock" /\ call[c].todo # <<>> /\ lock[f] = Free
      /\ call \in [Calls -> Call] /\ lock \in [Files -> Calls \cup {Free}]
  BY DEF LocksOK, Acquire, Available
<1>2. /\ Head(call[c].todo) \in Names /\ Tail(call[c].todo) \in Seq(Names)
      /\ call[c].held \in Seq(Files) /\ call[c].ok \in BOOLEAN
  BY <1>1, HeadTailProperties DEF Call
<1>3. f \in Files
  BY <1>2, NamesAssumption
<1>4. call[c].swap = <<>> /\ call[c].swapped = <<>>
  BY <1>1 DEF RowOK
<1>5. /\ lock' = [lock EXCEPT ![f] = c]
      /\ call' = [call EXCEPT ![c] = row]
  BY <1>1 DEF Acquire
<1>6. /\ row.pc = "lock" /\ row.swap = <<>> /\ row.swapped = <<>> /\ row.ok = call[c].ok
      /\ row.todo = Tail(call[c].todo) /\ row.held = Append(call[c].held, f)
  BY <1>1, <1>4 DEF Call
<1>. HIDE DEF f
<1>7. /\ Append(call[c].held, f) \in Seq(Files) /\ IsInjective(Append(call[c].held, f))
      /\ Range(Append(call[c].held, f)) = Range(call[c].held) \cup {f}
  <2>1. f \notin Range(call[c].held) /\ IsInjective(call[c].held)
    BY <1>1, AbsentAssumption DEF RowOK
  <2>. QED
    BY <1>2, <1>3, <2>1, WithOneMore
<1>8. RowOK(row)
  <2>1. row \in Call
    BY <1>1, <1>2, <1>7 DEF Call
  <2>. HIDE DEF row
  <2>. QED
    BY <1>6, <1>7, <2>1, NoneListed DEF RowOK
<1>. HIDE DEF row
<1>9. /\ call'[c] = row /\ \A d \in Calls \ {c} : call'[d] = call[d]
      /\ call' \in [Calls -> Call] /\ lock' \in [Files -> Calls \cup {Free}]
  BY <1>1, <1>3, <1>5, <1>8 DEF RowOK
<1>10. LocksOK'
  <2>1. ASSUME NEW d \in Calls
        PROVE  RowOK(call'[d]) /\ Range(call'[d].held) = {g \in Files : lock'[g] = d}
    <3>1. CASE d = c
      <4>1. {g \in Files : lock'[g] = c} = {g \in Files : lock[g] = c} \cup {f}
        BY <1>1, <1>3, <1>5
      <4>. QED
        BY <1>1, <1>6, <1>7, <1>8, <1>9, <3>1, <4>1
    <3>2. CASE d # c
      <4>1. RowOK(call[d]) /\ Range(call[d].held) = {g \in Files : lock[g] = d}
        BY DEF LocksOK
      <4>2. {g \in Files : lock'[g] = d} = {g \in Files : lock[g] = d}
        BY <1>1, <1>3, <1>5, <3>2, AbsentAssumption
      <4>. QED
        BY <1>9, <3>2, <4>1, <4>2
    <3>. QED
      BY <3>1, <3>2
  <2>. QED
    BY <1>9, <2>1 DEF LocksOK, RowOK
<1>11. \A d \in Calls : /\ DueOf(call'[d]) = DueOf(call[d])
                        /\ HiddenOf(call'[d]) = HiddenOf(call[d])
                        /\ AwayOf(call'[d]) = AwayOf(call[d])
                        /\ ShownOf(call'[d]) = ShownOf(call[d])
  BY <1>1, <1>4, <1>6, <1>9 DEF DueOf, HiddenOf, AwayOf, ShownOf
<1>. QED
  BY <1>3, <1>10, <1>11 DEF f, Due, Hidden, Away, Shown, DueOf, HiddenOf, AwayOf, ShownOf

(* The call sees what is staged.                                            *)
LEMMA LookMoves ==
  ASSUME LocksOK, NEW c \in Calls, Look(c)
  PROVE  /\ LocksOK' /\ UNCHANGED <<Hidden, Away, Shown>>
         /\ Due' \subseteq Due \cup {f \in Files : proposed[f] # Absent}
<1>. DEFINE staged == {f \in Range(call[c].held) : proposed[f] # Absent}
            stale == \E f \in staged : backup[f] # Absent
<1>1. /\ RowOK(call[c]) /\ call[c] \in Call /\ Range(call[c].held) = {g \in Files : lock[g] = c}
      /\ call[c].pc = "lock" /\ lock' = lock
      /\ call \in [Calls -> Call]
  BY DEF LocksOK, Look
<1>2. PICK swappable \in InOrder(call[c].held, staged) :
        call' = [call EXCEPT ![c].swap = IF stale THEN <<>> ELSE swappable,
                             ![c].ok = ~stale,
                             ![c].pc = IF stale THEN "restore" ELSE "hide"]
  BY DEF Look
<1>. HIDE DEF stale
<1>4. swappable \in Seq(Files) /\ IsInjective(swappable) /\ Range(swappable) = staged
  <2>1. call[c].held \in Seq(Files) /\ IsInjective(call[c].held) /\ staged \in SUBSET Files
    BY <1>1 DEF RowOK, Call
  <2>. QED
    BY <2>1, PickedInOrder
<1>5. /\ call[c].swap = <<>> /\ call[c].swapped = <<>>
      /\ call[c].todo \in Seq(Names) /\ call[c].held \in Seq(Files)
  BY <1>1 DEF RowOK, Call
<1>. DEFINE row == [call[c] EXCEPT !.swap = IF stale THEN <<>> ELSE swappable, !.ok = ~stale,
                                   !.pc = IF stale THEN "restore" ELSE "hide"]
<1>6. call' = [call EXCEPT ![c] = row]
  BY <1>1, <1>2
<1>7. /\ row.pc = IF stale THEN "restore" ELSE "hide"
      /\ row.swap = IF stale THEN <<>> ELSE swappable
      /\ row.swapped = <<>> /\ row.held = call[c].held
  BY <1>1, <1>5 DEF Call
<1>8. row.swap \in Seq(Files) /\ IsInjective(row.swap) /\ Range(row.swap) \subseteq staged
  <2>. HIDE DEF row
  <2>. QED
    BY <1>4, <1>7, EmptySeq, NoneListed
<1>9. RowOK(row)
  <2>1. row \in Call
    <3>1. (IF stale THEN <<>> ELSE swappable) \in Seq(Files)
      BY <1>4, EmptySeq
    <3>2. (IF stale THEN "restore" ELSE "hide") \in {"hide", "restore"} 
      OBVIOUS
    <3>3. (~stale) \in BOOLEAN
      OBVIOUS
    <3>. QED
      BY <1>1, <3>1, <3>2, <3>3 DEF Call
  <2>. HIDE DEF row
  <2>. QED
    BY <1>1, <1>7, <1>8, <2>1, NoneListed DEF RowOK
<1>. HIDE DEF row
<1>10. /\ DueOf(row) \subseteq staged /\ HiddenOf(row) = {} /\ AwayOf(row) = {} /\ ShownOf(row) = {}
       /\ HiddenOf(call[c]) = {} /\ AwayOf(call[c]) = {} /\ ShownOf(call[c]) = {}
  BY <1>1, <1>5, <1>7, <1>8, NoneListed DEF DueOf, HiddenOf, AwayOf, ShownOf
<1>11. LocksOK' /\ Moved(c, row)
  BY <1>1, <1>6, <1>7, <1>9, RowChange
<1>. QED
  BY <1>1, <1>10, <1>11 DEF Moved

(* The target is renamed to its backup.                                    *)
LEMMA HideMoves ==
  ASSUME LocksOK, NEW c \in Calls, Hide(c)
  PROVE  LET f == Head(call[c].swap) IN
         /\ LocksOK' /\ UNCHANGED <<Away, Shown>> /\ Due' \subseteq Due
         /\ f \in Due \ Hidden
         /\ \/ /\ target[f] # Absent
               /\ backup' = [backup EXCEPT ![f] = target[f]]
               /\ target' = [target EXCEPT ![f] = Absent]
               /\ Hidden' = Hidden \cup {f}
            \/ UNCHANGED <<target, backup, Hidden>>
<1>. DEFINE f == Head(call[c].swap)
<1>1. /\ RowOK(call[c]) /\ call[c] \in Call /\ call \in [Calls -> Call]
      /\ call[c].pc = "hide" /\ call[c].swap # <<>> /\ lock' = lock
  BY DEF LocksOK, Hide
<1>2. f \in Range(call[c].swap) /\ f \in Files
  BY <1>1, WithoutHead DEF RowOK, Call
<1>3. f \in Due
  BY <1>1, <1>2 DEF Due, DueOf
<1>4. f \notin Hidden
  <2>. SUFFICES ASSUME NEW d \in Calls, f \in HiddenOf(call[d]) PROVE FALSE
    BY DEF Hidden
  <2>1. lock[f] = c /\ lock[f] = d
    BY <1>1, <1>2, OwnFiles DEF RowOK
  <2>. QED
    BY <1>1, <2>1 DEF HiddenOf
<1>5. /\ HiddenOf(call[c]) = {} /\ AwayOf(call[c]) = {}
      /\ DueOf(call[c]) = Range(call[c].swap) /\ ShownOf(call[c]) = Range(call[c].swapped)
  BY <1>1 DEF HiddenOf, AwayOf, DueOf, ShownOf
<1>6. CASE /\ target[f] # Absent
           /\ backup' = [backup EXCEPT ![f] = target[f]]
           /\ target' = [target EXCEPT ![f] = Absent]
           /\ call' = [call EXCEPT ![c].pc = "show"]
  <2>. DEFINE row == [call[c] EXCEPT !.pc = "show"]
  <2>1. /\ row.pc = "show" /\ row.swap = call[c].swap /\ row.swapped = call[c].swapped
        /\ row.held = call[c].held /\ row \in Call
        /\ call' = [call EXCEPT ![c] = row]
    BY <1>1, <1>6 DEF Call
  <2>. HIDE DEF row
  <2>2. RowOK(row)
    BY <1>1, <2>1 DEF RowOK
  <2>3. /\ HiddenOf(row) = {f} /\ AwayOf(row) = {} /\ DueOf(row) = DueOf(call[c])
        /\ ShownOf(row) = ShownOf(call[c])
    BY <1>5, <2>1 DEF HiddenOf, AwayOf, DueOf, ShownOf
  <2>4. DueOf(call[c]) \subseteq Due /\ ShownOf(call[c]) \subseteq Shown
    BY OwnFiles DEF Due, Shown
  <2>5. /\ LocksOK' /\ Due' = Due /\ Hidden' = Hidden \cup {f} /\ Away' = Away /\ Shown' = Shown
    <3>1. LocksOK' /\ Moved(c, row)
      BY <1>1, <2>1, <2>2, RowChange
    <3>. QED
      BY <1>5, <2>3, <2>4, <3>1 DEF Moved
  <2>. QED
    BY <1>3, <1>4, <1>6, <2>5
<1>7. CASE /\ call' = [call EXCEPT ![c].pc = "restore", ![c].ok = FALSE]
           /\ UNCHANGED <<target, backup>>
  <2>. DEFINE row == [call[c] EXCEPT !.pc = "restore", !.ok = FALSE]
  <2>1. /\ row.pc = "restore" /\ row.swap = call[c].swap /\ row.swapped = call[c].swapped
        /\ row.held = call[c].held /\ row \in Call
        /\ call' = [call EXCEPT ![c] = row]
    BY <1>1, <1>7 DEF Call
  <2>. HIDE DEF row
  <2>2. RowOK(row)
    BY <1>1, <2>1 DEF RowOK
  <2>3. /\ HiddenOf(row) = {} /\ AwayOf(row) = {} /\ DueOf(row) = {}
        /\ ShownOf(row) = ShownOf(call[c])
    BY <1>5, <2>1 DEF HiddenOf, AwayOf, DueOf, ShownOf
  <2>4. ShownOf(call[c]) \subseteq Shown
    BY OwnFiles DEF Shown
  <2>5. LocksOK' /\ Due' \subseteq Due /\ Hidden' = Hidden /\ Away' = Away /\ Shown' = Shown
    <3>1. LocksOK' /\ Moved(c, row)
      BY <1>1, <2>1, <2>2, RowChange
    <3>. QED
      BY <1>5, <2>3, <2>4, <3>1 DEF Moved
  <2>. QED
    BY <1>3, <1>4, <1>7, <2>5
<1>. QED
  BY <1>6, <1>7 DEF Hide

(* The staged file is renamed to the target.                                *)
LEMMA ShowMoves ==
  ASSUME LocksOK, NEW c \in Calls, Show(c)
  PROVE  LET f == Head(call[c].swap) IN
         /\ LocksOK' /\ UNCHANGED Away /\ Due' \subseteq Due
         /\ f \in Hidden /\ Hidden' = Hidden \ {f}
         /\ \/ /\ proposed[f] # Absent
               /\ target' = [target EXCEPT ![f] = proposed[f]]
               /\ proposed' = [proposed EXCEPT ![f] = Absent]
               /\ Due' \subseteq Due \ {f} /\ Shown' = Shown \cup {f}
               /\ UNCHANGED disturbed
            \/ /\ disturbed' = disturbed \cup {f}
               /\ UNCHANGED <<target, proposed, Shown>>
<1>. DEFINE f == Head(call[c].swap)
<1>1. /\ RowOK(call[c]) /\ call[c] \in Call /\ call \in [Calls -> Call]
      /\ call[c].pc = "show" /\ call[c].swap # <<>> /\ lock' = lock
  BY DEF LocksOK, Show, RowOK
<1>2. /\ f \in Range(call[c].swap) /\ f \in Files
      /\ Tail(call[c].swap) \in Seq(Files) /\ IsInjective(Tail(call[c].swap))
      /\ Range(Tail(call[c].swap)) = Range(call[c].swap) \ {f}
  BY <1>1, WithoutHead DEF RowOK, Call
<1>3. /\ HiddenOf(call[c]) = {f} /\ AwayOf(call[c]) = {}
      /\ DueOf(call[c]) = Range(call[c].swap) /\ ShownOf(call[c]) = Range(call[c].swapped)
  BY <1>1 DEF HiddenOf, AwayOf, DueOf, ShownOf
<1>4. f \in Hidden
  BY <1>2, <1>3 DEF Hidden
<1>5. ShownOf(call[c]) \subseteq Shown /\ DueOf(call[c]) \subseteq Due
  BY OwnFiles DEF Shown, Due
<1>6. CASE /\ proposed[f] # Absent
           /\ target' = [target EXCEPT ![f] = proposed[f]]
           /\ proposed' = [proposed EXCEPT ![f] = Absent]
           /\ call' = [call EXCEPT ![c].pc = "hide", ![c].swap = Tail(@),
                                   ![c].swapped = Append(@, f)]
           /\ UNCHANGED disturbed
  <2>. DEFINE row == [call[c] EXCEPT !.pc = "hide", !.swap = Tail(@), !.swapped = Append(@, f)]
  <2>1. /\ Append(call[c].swapped, f) \in Seq(Files) /\ IsInjective(Append(call[c].swapped, f))
        /\ Range(Append(call[c].swapped, f)) = Range(call[c].swapped) \cup {f}
    <3>1. call[c].swapped \in Seq(Files) /\ IsInjective(call[c].swapped)
      BY <1>1 DEF RowOK, Call
    <3>2. f \notin Range(call[c].swapped)
      BY <1>1, <1>2 DEF RowOK
    <3>. QED
      BY <1>2, <3>1, <3>2, WithOneMore
  <2>2. /\ row.pc = "hide" /\ row.swap = Tail(call[c].swap)
        /\ row.swapped = Append(call[c].swapped, f)
        /\ row.held = call[c].held /\ row \in Call
        /\ call' = [call EXCEPT ![c] = row]
    BY <1>1, <1>2, <1>6, <2>1 DEF Call
  <2>. HIDE DEF row
  <2>3. RowOK(row)
    BY <1>1, <1>2, <2>1, <2>2 DEF RowOK
  <2>4. /\ HiddenOf(row) = {} /\ AwayOf(row) = {} /\ DueOf(row) = DueOf(call[c]) \ {f}
        /\ ShownOf(row) = ShownOf(call[c]) \cup {f}
    BY <1>2, <1>3, <2>1, <2>2 DEF HiddenOf, AwayOf, DueOf, ShownOf
  <2>5. /\ LocksOK' /\ Due' \subseteq Due \ {f} /\ Hidden' = Hidden \ {f} /\ Away' = Away
        /\ Shown' = Shown \cup {f}
    <3>1. LocksOK' /\ Moved(c, row)
      BY <1>1, <2>2, <2>3, RowChange
    <3>. QED
      BY <1>2, <1>3, <1>5, <2>4, <3>1 DEF Moved
  <2>. QED
    BY <1>4, <1>6, <2>5
<1>7. CASE /\ call' = [call EXCEPT ![c].pc = "restore", ![c].ok = FALSE]
           /\ disturbed' = disturbed \cup {f}
           /\ UNCHANGED <<target, proposed>>
  <2>. DEFINE row == [call[c] EXCEPT !.pc = "restore", !.ok = FALSE]
  <2>1. /\ row.pc = "restore" /\ row.swap = call[c].swap /\ row.swapped = call[c].swapped
        /\ row.held = call[c].held /\ row \in Call
        /\ call' = [call EXCEPT ![c] = row]
    BY <1>1, <1>7 DEF Call
  <2>. HIDE DEF row
  <2>2. RowOK(row)
    BY <1>1, <2>1 DEF RowOK
  <2>3. /\ HiddenOf(row) = {} /\ AwayOf(row) = {} /\ DueOf(row) = {}
        /\ ShownOf(row) = ShownOf(call[c])
    BY <1>3, <2>1 DEF HiddenOf, AwayOf, DueOf, ShownOf
  <2>4. LocksOK' /\ Due' \subseteq Due /\ Hidden' = Hidden \ {f} /\ Away' = Away /\ Shown' = Shown
    <3>1. LocksOK' /\ Moved(c, row)
      BY <1>1, <2>1, <2>2, RowChange
    <3>. QED
      BY <1>3, <1>5, <2>3, <3>1 DEF Moved
  <2>. QED
    BY <1>4, <1>7, <2>4
<1>. QED
  BY <1>6, <1>7 DEF Show

(* The checks have run.                                                    *)
LEMMA CheckMoves ==
  ASSUME LocksOK, NEW c \in Calls, Check(c)
  PROVE  LocksOK' /\ UNCHANGED <<Due, Hidden, Away, Shown>>
<1>. DEFINE row == [call[c] EXCEPT !.pc = "restore"]
<1>1. /\ RowOK(call[c]) /\ call[c] \in Call /\ call \in [Calls -> Call]
      /\ call[c].pc = "hide" /\ call[c].swap = <<>> /\ lock' = lock
      /\ call' = [call EXCEPT ![c] = row]
  BY DEF LocksOK, Check
<1>2. /\ row.pc = "restore" /\ row.swap = <<>> /\ row.swapped = call[c].swapped
      /\ row.held = call[c].held /\ row \in Call
  BY <1>1 DEF Call
<1>. HIDE DEF row
<1>3. RowOK(row)
  BY <1>1, <1>2 DEF RowOK
<1>4. /\ HiddenOf(row) = {} /\ AwayOf(row) = {} /\ DueOf(row) = {}
      /\ HiddenOf(call[c]) = {} /\ AwayOf(call[c]) = {} /\ DueOf(call[c]) = {}
      /\ ShownOf(row) = ShownOf(call[c])
  BY <1>1, <1>2, NoneListed DEF HiddenOf, AwayOf, DueOf, ShownOf
<1>5. ShownOf(call[c]) \subseteq Shown
  BY OwnFiles DEF Shown
<1>6. LocksOK' /\ Moved(c, row)
  BY <1>1, <1>2, <1>3, RowChange
<1>. QED
  BY <1>4, <1>5, <1>6 DEF Moved

(* A restore that gives the file up: it is not among those swapped in.      *)
LEMMA GiveUpMoves ==
  ASSUME LocksOK, NEW c \in Calls, call[c].swapped # <<>>,
         call[c].pc \in {"restore", "reinstate"},
         NEW ok \in BOOLEAN, lock' = lock,
         call' = [call EXCEPT ![c].pc = "restore", ![c].swapped = Front(@), ![c].ok = ok]
  PROVE  LET f == Last(call[c].swapped) IN
         /\ LocksOK' /\ UNCHANGED <<Due, Hidden>>
         /\ Shown' = Shown \ {f} /\ Away' = Away \ {f}
<1>. DEFINE f == Last(call[c].swapped)
            row == [call[c] EXCEPT !.pc = "restore", !.swapped = Front(@), !.ok = ok]
<1>1. RowOK(call[c]) /\ call[c] \in Call /\ call \in [Calls -> Call]
  BY DEF LocksOK
<1>2. /\ f \in Range(call[c].swapped) /\ f \in Files
      /\ Front(call[c].swapped) \in Seq(Files) /\ IsInjective(Front(call[c].swapped))
      /\ Range(Front(call[c].swapped)) = Range(call[c].swapped) \ {f}
  <2>1. call[c].swapped \in Seq(Files) /\ IsInjective(call[c].swapped)
    BY <1>1 DEF RowOK, Call
  <2>. QED
    BY <2>1, WithoutLast
<1>3. /\ row.pc = "restore" /\ row.swap = call[c].swap /\ row.swapped = Front(call[c].swapped)
      /\ row.held = call[c].held /\ row \in Call
      /\ call' = [call EXCEPT ![c] = row]
  BY <1>1, <1>2 DEF Call
<1>. HIDE DEF row, f
<1>4. RowOK(row)
  BY <1>1, <1>2, <1>3 DEF RowOK
<1>5. LocksOK' /\ Moved(c, row)
  BY <1>3, <1>4, RowChange
<1>6. /\ DueOf(row) = {} /\ HiddenOf(row) = {} /\ AwayOf(row) = {}
      /\ DueOf(call[c]) = {} /\ HiddenOf(call[c]) = {} /\ AwayOf(call[c]) \subseteq {f}
      /\ ShownOf(row) = Range(call[c].swapped) \ {f}
      /\ ShownOf(call[c]) \cup {f} = Range(call[c].swapped)
  BY <1>2, <1>3 DEF f, DueOf, HiddenOf, AwayOf, ShownOf
<1>7. ASSUME NEW d \in Calls \ {c}
      PROVE  f \notin AwayOf(call[d]) /\ f \notin ShownOf(call[d])
  <2>1. lock[f] = c
    BY <1>2, OwnFiles
  <2>2. \A g \in AwayOf(call[d]) \cup ShownOf(call[d]) : lock[g] = d
    BY OwnFiles
  <2>. QED
    BY <2>1, <2>2
<1>8. /\ ShownOf(call[c]) \subseteq Shown
      /\ f \in Shown => f \in ShownOf(call[c])
      /\ f \in Away => f \in AwayOf(call[c])
  BY <1>7, OwnFiles DEF Shown, Away
<1>9. Shown' = Shown \ {f} /\ Away' = Away \ {f}
  BY <1>5, <1>6, <1>8 DEF Moved
<1>. QED
  BY <1>5, <1>6, <1>9 DEF Moved, f

(* The target is renamed back to the staged file.                           *)
LEMMA PutBackMoves ==
  ASSUME LocksOK, NEW c \in Calls, PutBack(c)
  PROVE  LET f == Last(call[c].swapped) IN
         /\ LocksOK' /\ UNCHANGED <<Due, Hidden>>
         /\ f \in Shown /\ Shown' = Shown \ {f}
         /\ \/ /\ proposed' = [proposed EXCEPT ![f] = target[f]]
               /\ target' = [target EXCEPT ![f] = Absent]
               /\ Away' = Away \cup {f}
               /\ UNCHANGED disturbed
            \/ /\ disturbed' = disturbed \cup {f}
               /\ UNCHANGED <<target, proposed, Away>>
<1>. DEFINE f == Last(call[c].swapped)
<1>1. /\ RowOK(call[c]) /\ call[c] \in Call /\ call \in [Calls -> Call]
      /\ call[c].pc = "restore" /\ call[c].swapped # <<>> /\ lock' = lock
  BY DEF LocksOK, PutBack
<1>2. f \in Range(call[c].swapped) /\ f \in Files
  <2>1. call[c].swapped \in Seq(Files) /\ IsInjective(call[c].swapped)
    BY <1>1 DEF RowOK, Call
  <2>. QED
    BY <1>1, <2>1, WithoutLast
<1>3. /\ HiddenOf(call[c]) = {} /\ AwayOf(call[c]) = {} /\ DueOf(call[c]) = {}
      /\ ShownOf(call[c]) = Range(call[c].swapped)
  BY <1>1 DEF HiddenOf, AwayOf, DueOf, ShownOf
<1>4. f \in Shown /\ ShownOf(call[c]) \subseteq Shown
  BY <1>2, <1>3, OwnFiles DEF Shown
<1>5. f \notin Away
  BY <1>4, OnePlace
<1>6. CASE /\ proposed' = [proposed EXCEPT ![f] = target[f]]
           /\ target' = [target EXCEPT ![f] = Absent]
           /\ call' = [call EXCEPT ![c].pc = "reinstate"]
           /\ UNCHANGED disturbed
  <2>. DEFINE row == [call[c] EXCEPT !.pc = "reinstate"]
  <2>1. /\ row.pc = "reinstate" /\ row.swap = call[c].swap /\ row.swapped = call[c].swapped
        /\ row.held = call[c].held /\ row \in Call
        /\ call' = [call EXCEPT ![c] = row]
    BY <1>1, <1>6 DEF Call
  <2>. HIDE DEF row
  <2>2. RowOK(row)
    BY <1>1, <2>1 DEF RowOK
  <2>3. /\ HiddenOf(row) = {} /\ AwayOf(row) = {f} /\ DueOf(row) = {}
        /\ ShownOf(row) = ShownOf(call[c]) \ {f}
    BY <1>3, <2>1 DEF HiddenOf, AwayOf, DueOf, ShownOf
  <2>4. LocksOK' /\ Moved(c, row)
    BY <1>1, <2>1, <2>2, RowChange
  <2>5. Shown' = Shown \ {f}
    BY <1>2, <1>3, <1>4, <2>3, <2>4 DEF Moved
  <2>. QED
    BY <1>3, <1>4, <1>6, <2>3, <2>4, <2>5 DEF Moved
<1>7. CASE Refused /\ GiveUp(c, f) /\ UNCHANGED <<target, proposed>>
  <2>1. LocksOK' /\ UNCHANGED <<Due, Hidden>> /\ Shown' = Shown \ {f} /\ Away' = Away \ {f}
    BY <1>1, <1>7, GiveUpMoves DEF GiveUp
  <2>. QED
    BY <1>4, <1>5, <1>7, <2>1 DEF GiveUp
<1>. QED
  BY <1>6, <1>7 DEF PutBack

(* The backup is renamed to the target.                                    *)
LEMMA ReinstateMoves ==
  ASSUME LocksOK, NEW c \in Calls, Reinstate(c)
  PROVE  LET f == Last(call[c].swapped) IN
         /\ LocksOK' /\ UNCHANGED <<Due, Hidden, Shown>>
         /\ f \in Away /\ Away' = Away \ {f}
         /\ \/ /\ target' = [target EXCEPT ![f] = backup[f]]
               /\ backup' = [backup EXCEPT ![f] = Absent]
               /\ UNCHANGED disturbed
            \/ /\ disturbed' = disturbed \cup {f}
               /\ UNCHANGED <<target, backup>>
<1>. DEFINE f == Last(call[c].swapped)
<1>1. /\ RowOK(call[c]) /\ call[c] \in Call /\ call \in [Calls -> Call]
      /\ call[c].pc = "reinstate" /\ call[c].swapped # <<>> /\ lock' = lock
  BY DEF LocksOK, Reinstate, RowOK
<1>2. f \in Files
  <2>1. call[c].swapped \in Seq(Files) /\ IsInjective(call[c].swapped)
    BY <1>1 DEF RowOK, Call
  <2>. QED
    BY <1>1, <2>1, WithoutLast
<1>3. f \in Away /\ f \notin Shown
  <2>1. f \in Away
    BY <1>1, <1>2 DEF Away, AwayOf
  <2>. QED
    BY <2>1, OnePlace
<1>4. CASE /\ target' = [target EXCEPT ![f] = backup[f]]
           /\ backup' = [backup EXCEPT ![f] = Absent]
           /\ call' = [call EXCEPT ![c].pc = "restore", ![c].swapped = Front(@)]
           /\ UNCHANGED disturbed
  <2>1. call[c].ok \in BOOLEAN
    BY <1>1 DEF Call
  <2>2. call' = [call EXCEPT ![c].pc = "restore", ![c].swapped = Front(@), ![c].ok = call[c].ok]
    BY <1>1, <1>4 DEF Call
  <2>3. LocksOK' /\ UNCHANGED <<Due, Hidden>> /\ Shown' = Shown \ {f} /\ Away' = Away \ {f}
    BY <1>1, <2>1, <2>2, GiveUpMoves
  <2>. QED
    BY <1>3, <1>4, <2>3
<1>5. CASE Refused /\ GiveUp(c, f) /\ UNCHANGED <<target, backup>>
  <2>1. LocksOK' /\ UNCHANGED <<Due, Hidden>> /\ Shown' = Shown \ {f} /\ Away' = Away \ {f}
    BY <1>1, <1>5, GiveUpMoves DEF GiveUp
  <2>. QED
    BY <1>3, <1>5, <2>1 DEF GiveUp
<1>. QED
  BY <1>4, <1>5 DEF Reinstate

(* Every lock is released.                                                 *)
LEMMA ReleaseMoves ==
  ASSUME LocksOK, NEW c \in Calls, Release(c)
  PROVE  LocksOK' /\ UNCHANGED <<Due, Hidden, Away, Shown>>
<1>1. /\ NoCall \in Call /\ RowOK(NoCall) /\ Range(NoCall.held) = {}
      /\ DueOf(NoCall) = {} /\ HiddenOf(NoCall) = {} /\ AwayOf(NoCall) = {} /\ ShownOf(NoCall) = {}
  <2>1. NoCall \in Call
    BY EmptySeq DEF NoCall, Call
  <2>. QED
    BY <2>1, NoneListed DEF NoCall, RowOK, DueOf, HiddenOf, AwayOf, ShownOf
<1>2. /\ RowOK(call[c]) /\ Range(call[c].held) = {g \in Files : lock[g] = c}
      /\ call[c].pc = "restore" /\ call[c].swapped = <<>>
      /\ call \in [Calls -> Call] /\ lock \in [Files -> Calls \cup {Free}]
      /\ call' = [call EXCEPT ![c] = NoCall]
      /\ lock' = [g \in Files |-> IF lock[g] = c THEN Free ELSE lock[g]]
  BY DEF LocksOK, Release, Released
<1>3. /\ call'[c] = NoCall /\ \A d \in Calls \ {c} : call'[d] = call[d]
      /\ call' \in [Calls -> Call] /\ lock' \in [Files -> Calls \cup {Free}]
  BY <1>1, <1>2
<1>4. LocksOK'
  <2>1. ASSUME NEW d \in Calls
        PROVE  RowOK(call'[d]) /\ Range(call'[d].held) = {g \in Files : lock'[g] = d}
    <3>1. CASE d = c
      <4>1. \A g \in Files : lock'[g] # c
        BY <1>2, AbsentAssumption
      <4>. QED
        BY <1>1, <1>3, <3>1, <4>1
    <3>2. CASE d # c
      <4>1. RowOK(call[d]) /\ Range(call[d].held) = {g \in Files : lock[g] = d}
        BY DEF LocksOK
      <4>2. {g \in Files : lock'[g] = d} = {g \in Files : lock[g] = d}
        BY <1>2, <3>2, AbsentAssumption
      <4>. QED
        BY <1>3, <3>2, <4>1, <4>2
    <3>. QED
      BY <3>1, <3>2
  <2>. QED
    BY <1>3, <2>1 DEF LocksOK, RowOK
<1>5. \A d \in Calls : /\ DueOf(call'[d]) = DueOf(call[d])
                       /\ HiddenOf(call'[d]) = HiddenOf(call[d])
                       /\ AwayOf(call'[d]) = AwayOf(call[d])
                       /\ ShownOf(call'[d]) = ShownOf(call[d])
  <2>1. /\ DueOf(call[c]) = {} /\ HiddenOf(call[c]) = {} /\ AwayOf(call[c]) = {}
        /\ ShownOf(call[c]) = {}
    BY <1>2, NoneListed DEF DueOf, HiddenOf, AwayOf, ShownOf
  <2>. QED
    BY <1>1, <1>3, <2>1
<1>. QED
  BY <1>4, <1>5 DEF Due, Hidden, Away, Shown, DueOf, HiddenOf, AwayOf, ShownOf

(* The process dies.                                                       *)
LEMMA CrashMoves ==
  ASSUME LocksOK, Crash
  PROVE  LocksOK' /\ Due' = {} /\ Hidden' = {} /\ Away' = {} /\ Shown' = {}
<1>1. /\ NoCall \in Call /\ RowOK(NoCall) /\ Range(NoCall.held) = {}
      /\ DueOf(NoCall) = {} /\ HiddenOf(NoCall) = {} /\ AwayOf(NoCall) = {} /\ ShownOf(NoCall) = {}
  <2>1. NoCall \in Call
    BY EmptySeq DEF NoCall, Call
  <2>. QED
    BY <2>1, NoneListed DEF NoCall, RowOK, DueOf, HiddenOf, AwayOf, ShownOf
<1>2. lock' = [f \in Files |-> Free] /\ call' = [c \in Calls |-> NoCall]
  BY DEF Crash
<1>3. LocksOK'
  BY <1>1, <1>2, AbsentAssumption DEF LocksOK, RowOK
<1>. QED
  BY <1>1, <1>2, <1>3 DEF Due, Hidden, Away, Shown, DueOf, HiddenOf, AwayOf, ShownOf

-----------------------------------------------------------------------------
(* The tree and those that write it                                        *)

TreeOK ==
    /\ target \in [Files -> Entry] /\ proposed \in [Files -> Entry] /\ backup \in [Files -> Entry]
    /\ source \in [Files -> Entry] /\ disturbed \subseteq Files

WritersOK ==
    /\ editor \in [Edits -> EditorRow] /\ user \in UserRow
    /\ \A e \in Edits : editor[e].pc # "none" => editor[e].file \in Files
    /\ user.pc # "none" => user.file \in Files

(* A file that has left its place has a backup.                             *)
BackedUp == \A f \in Hidden \cup Away \cup Shown : backup[f] # Absent

(* Unless the user acted, what waits for the swap, or is on its way back, is *)
(* staged, and what is shown is at the target.                              *)
StagedIsThere ==
    /\ \A f \in (Due \cup Away) \ disturbed : proposed[f] # Absent
    /\ \A f \in Shown \ disturbed : target[f] # Absent

(* The original, in terms of the places.                                   *)
SourceInPlace ==
    \A f \in Files \ disturbed :
        IF f \in Hidden \cup Away \cup Shown
        THEN backup[f] = source[f]
        ELSE target[f] = source[f] /\ backup[f] = Absent

FilesInv == BackedUp /\ StagedIsThere /\ SourceInPlace

(* An edit that is staged, that nothing crossed, is in all that may become   *)
(* the content of its file: what is staged or else the target, the target    *)
(* that is to be put back as staged, what another edit starts from, and what *)
(* the user is about to confirm.                                           *)
Uncrossed(e) == editor[e].pc = "staged" /\ ~editor[e].crossed /\ editor[e].file \notin disturbed

Carried(e, f) ==
    /\ proposed[f] # Absent => e \in proposed[f]
    /\ proposed[f] = Absent => target[f] # Absent /\ e \in target[f]
    /\ f \in Shown => e \in target[f]
    /\ \A d \in Edits : editor[d].pc = "read" /\ editor[d].file = f /\ ~editor[d].whole =>
         e \in editor[d].base
    /\ user.pc # "none" /\ user.file = f => e \in user.content

AllCarried == \A e \in Edits : Uncrossed(e) => Carried(e, editor[e].file)

(* Between the two steps of a confirmation.                                 *)
UserWrote == user.pc = "unlink" /\ user.file \notin disturbed => source[user.file] = user.content

VerifyInv ==
    LocksOK /\ TreeOK /\ WritersOK /\ FilesInv /\ AllCarried /\ UserWrote

(* What the invariant says of the properties.                              *)
LEMMA WhatItMeans ==
  ASSUME VerifyInv
  PROVE  TypeOK /\ OriginalKept /\ StagedEditsKept
<1>1. TypeOK
  BY DEF VerifyInv, LocksOK, TreeOK, WritersOK, RowOK, TypeOK
<1>2. \A f \in Files : Swapped(f) \/ Between(f) <=> f \in Hidden \cup Away \cup Shown
  BY OnePlace DEF VerifyInv
<1>3. OriginalKept
  BY <1>2 DEF VerifyInv, FilesInv, SourceInPlace, OriginalKept
<1>4. StagedEditsKept
  BY DEF VerifyInv, AllCarried, Uncrossed, Carried, StagedEditsKept, EditsIn
<1>. QED
  BY <1>1, <1>3, <1>4

(* A step leaves what a file carries in what it has staged and in its target. *)
EntriesCarry ==
    \A f \in Files \ disturbed', e \in Edits :
      Carried(e, f) => /\ proposed'[f] # Absent => e \in proposed'[f]
                       /\ proposed'[f] = Absent => target'[f] # Absent /\ e \in target'[f]
                       /\ f \in Shown' => e \in target'[f]

(* Edits that are no fewer crossed and no further than before: each stays    *)
(* carried if its file does.                                               *)
LEMMA EditsStay ==
  ASSUME VerifyInv, user' = user, disturbed \subseteq disturbed',
         \A e \in Edits : Uncrossed(e)' => Uncrossed(e) /\ editor'[e].file = editor[e].file,
         \A d \in Edits : editor'[d].pc = "read" /\ ~editor'[d].whole =>
           /\ editor[d].pc = "read" /\ ~editor[d].whole
           /\ editor'[d].file = editor[d].file /\ editor'[d].base = editor[d].base,
         EntriesCarry
  PROVE  AllCarried'
<1>. SUFFICES ASSUME NEW e \in Edits, Uncrossed(e)'
              PROVE  Carried(e, editor[e].file)'
  BY DEF AllCarried
<1>. DEFINE f == editor[e].file
<1>1. Uncrossed(e) /\ f \in Files \ disturbed' /\ f' = f
  BY DEF Uncrossed, VerifyInv, WritersOK
<1>2. Carried(e, f)
  BY <1>1 DEF VerifyInv, AllCarried
<1>3. /\ proposed'[f] # Absent => e \in proposed'[f]
      /\ proposed'[f] = Absent => target'[f] # Absent /\ e \in target'[f]
      /\ f \in Shown' => e \in target'[f]
  BY <1>1, <1>2 DEF EntriesCarry
<1>4. \A d \in Edits : editor'[d].pc = "read" /\ editor'[d].file = f /\ ~editor'[d].whole =>
        e \in editor'[d].base
  BY <1>2 DEF Carried
<1>5. user'.pc # "none" /\ user'.file = f => e \in user'.content
  BY <1>2 DEF Carried
<1>. HIDE DEF f
<1>. QED
  BY <1>1, <1>3, <1>4, <1>5 DEF Carried, f

(* The writers, and what is known of the source, as they were.              *)
LEMMA WritersStay ==
  ASSUME VerifyInv, UNCHANGED <<editor, user, source>>, disturbed \subseteq disturbed',
         EntriesCarry
  PROVE  WritersOK' /\ AllCarried' /\ UserWrote'
<1>1. WritersOK'
  BY DEF VerifyInv, WritersOK
<1>2. \A e \in Edits : Uncrossed(e)' => Uncrossed(e)
  BY DEF Uncrossed
<1>3. AllCarried'
  BY <1>2, EditsStay
<1>4. UserWrote'
  BY DEF VerifyInv, UserWrote
<1>. QED
  BY <1>1, <1>3, <1>4

(* Others cross the edits of a file.                                        *)
LEMMA CrossedEdits ==
  ASSUME VerifyInv, NEW f \in Files, editor' = Crossing(f), disturbed' = disturbed
  PROVE  /\ editor' \in [Edits -> EditorRow]
         /\ \A e \in Edits : /\ editor'[e].pc = editor[e].pc /\ editor'[e].file = editor[e].file
                             /\ editor'[e].base = editor[e].base
                             /\ editor'[e].whole = editor[e].whole
                             /\ Uncrossed(e)' => Uncrossed(e)
<1>1. editor \in [Edits -> EditorRow]
  BY DEF VerifyInv, WritersOK
<1>2. ASSUME NEW e \in Edits
      PROVE  /\ editor'[e] \in EditorRow
             /\ editor'[e].pc = editor[e].pc /\ editor'[e].file = editor[e].file
             /\ editor'[e].base = editor[e].base
             /\ editor'[e].whole = editor[e].whole
             /\ editor[e].pc # "read" => editor'[e] = editor[e]
  <2>1. CASE editor[e].pc = "read" /\ editor[e].file = f
    <3>1. editor'[e] = [editor[e] EXCEPT !.crossed = TRUE]
      BY <2>1 DEF Crossing
    <3>. QED
      BY <1>1, <2>1, <3>1 DEF EditorRow
  <2>2. CASE ~(editor[e].pc = "read" /\ editor[e].file = f)
    <3>1. editor'[e] = editor[e]
      BY <2>2 DEF Crossing
    <3>. QED
      BY <1>1, <3>1
  <2>. QED
    BY <2>1, <2>2
<1>3. editor' \in [Edits -> EditorRow]
  BY <1>2 DEF Crossing
<1>. QED
  BY <1>2, <1>3 DEF Uncrossed

(* Nothing happens to the tree.                                            *)
LEMMA TreeStays ==
  ASSUME VerifyInv, UNCHANGED <<tree, history, Hidden, Away, Shown>>,
         Due' \subseteq Due \cup {f \in Files : proposed[f] # Absent}
  PROVE  TreeOK' /\ FilesInv' /\ EntriesCarry
<1>1. TreeOK'
  BY DEF VerifyInv, TreeOK, tree, history
<1>2. BackedUp' /\ StagedIsThere' /\ SourceInPlace'
  BY DEF VerifyInv, FilesInv, BackedUp, StagedIsThere, SourceInPlace, tree, history
<1>3. EntriesCarry
  BY DEF EntriesCarry, Carried, tree
<1>. QED
  BY <1>1, <1>2, <1>3 DEF FilesInv

(* What a verification does before and after it moves anything.             *)
LEMMA BeginKeeps ==
  ASSUME VerifyInv, NEW c \in Calls, Begin(c)
  PROVE  VerifyInv'
<1>1. LocksOK' /\ UNCHANGED <<Due, Hidden, Away, Shown>>
  BY BeginMoves DEF VerifyInv
<1>2. UNCHANGED <<tree, history, editor, user, source, disturbed>>
  BY DEF Begin, history
<1>. QED
  BY <1>1, <1>2, TreeStays, WritersStay DEF VerifyInv

(* A lock is taken: the edits of its file are crossed.                     *)
LEMMA AcquireKeeps ==
  ASSUME VerifyInv, NEW c \in Calls, Acquire(c)
  PROVE  VerifyInv'
<1>. DEFINE f == FileOf[Head(call[c].todo)]
<1>1. LocksOK' /\ UNCHANGED <<Due, Hidden, Away, Shown>> /\ f \in Files
  BY AcquireMoves DEF VerifyInv
<1>2. UNCHANGED <<tree, history, user, source, disturbed>> /\ editor' = Crossing(f)
  BY DEF Acquire, history
<1>. HIDE DEF f
<1>3. TreeOK' /\ FilesInv' /\ EntriesCarry
  BY <1>1, <1>2, TreeStays
<1>4. /\ editor' \in [Edits -> EditorRow]
      /\ \A e \in Edits : /\ editor'[e].pc = editor[e].pc /\ editor'[e].file = editor[e].file
                          /\ editor'[e].base = editor[e].base
                          /\ editor'[e].whole = editor[e].whole
                          /\ Uncrossed(e)' => Uncrossed(e)
  BY <1>1, <1>2, CrossedEdits
<1>5. AllCarried'
  BY <1>2, <1>3, <1>4, EditsStay
<1>6. WritersOK' /\ UserWrote'
  BY <1>2, <1>4 DEF VerifyInv, WritersOK, UserWrote
<1>. QED
  BY <1>1, <1>3, <1>5, <1>6 DEF VerifyInv

(* What is staged now waits for the swap.                                  *)
LEMMA LookKeeps ==
  ASSUME VerifyInv, NEW c \in Calls, Look(c)
  PROVE  VerifyInv'
<1>1. /\ LocksOK' /\ UNCHANGED <<Hidden, Away, Shown>>
      /\ Due' \subseteq Due \cup {f \in Files : proposed[f] # Absent}
  BY LookMoves DEF VerifyInv
<1>2. UNCHANGED <<tree, history, editor, user, source, disturbed>>
  BY DEF Look, history
<1>. QED
  BY <1>1, <1>2, TreeStays, WritersStay DEF VerifyInv

(* The checks move nothing.                                                *)
LEMMA CheckKeeps ==
  ASSUME VerifyInv, NEW c \in Calls, Check(c)
  PROVE  VerifyInv'
<1>1. LocksOK' /\ UNCHANGED <<Due, Hidden, Away, Shown>>
  BY CheckMoves DEF VerifyInv
<1>2. UNCHANGED <<tree, history, editor, user, source, disturbed>>
  BY DEF Check, history
<1>. QED
  BY <1>1, <1>2, TreeStays, WritersStay DEF VerifyInv

(* The locks go; nothing is swapped any more.                              *)
LEMMA ReleaseKeeps ==
  ASSUME VerifyInv, NEW c \in Calls, Release(c)
  PROVE  VerifyInv'
<1>1. LocksOK' /\ UNCHANGED <<Due, Hidden, Away, Shown>>
  BY ReleaseMoves DEF VerifyInv
<1>2. UNCHANGED <<tree, history, editor, user, source, disturbed>>
  BY DEF Release, history
<1>. QED
  BY <1>1, <1>2, TreeStays, WritersStay DEF VerifyInv

-----------------------------------------------------------------------------
(* The renames                                                             *)

(* The original goes to the backup; what is staged carries the edits.      *)
LEMMA HideKeeps ==
  ASSUME VerifyInv, NEW c \in Calls, Hide(c)
  PROVE  VerifyInv'
<1>. DEFINE f == Head(call[c].swap)
<1>1. /\ LocksOK' /\ UNCHANGED <<Away, Shown>> /\ Due' \subseteq Due
      /\ f \in Due \ Hidden
      /\ \/ /\ target[f] # Absent
            /\ backup' = [backup EXCEPT ![f] = target[f]]
            /\ target' = [target EXCEPT ![f] = Absent]
            /\ Hidden' = Hidden \cup {f}
         \/ UNCHANGED <<target, backup, Hidden>>
  BY HideMoves DEF VerifyInv
<1>2. UNCHANGED <<proposed, editor, user, source, disturbed>>
  BY DEF Hide, history
<1>. HIDE DEF f
<1>3. CASE UNCHANGED <<target, backup, Hidden>>
  <2>1. UNCHANGED <<tree, history, Hidden, Away, Shown>>
    BY <1>1, <1>2, <1>3 DEF tree, history
  <2>. QED
    BY <1>1, <1>2, <2>1, TreeStays, WritersStay DEF VerifyInv
<1>4. CASE /\ target[f] # Absent
           /\ backup' = [backup EXCEPT ![f] = target[f]]
           /\ target' = [target EXCEPT ![f] = Absent]
           /\ Hidden' = Hidden \cup {f}
  <2>1. /\ f \in Files /\ f \notin Away /\ f \notin Shown
        /\ f \notin disturbed => proposed[f] # Absent
    BY <1>1, OnePlace DEF VerifyInv, FilesInv, StagedIsThere
  <2>2. /\ target'[f] = Absent /\ backup'[f] = target[f]
        /\ \A g \in Files \ {f} : target'[g] = target[g] /\ backup'[g] = backup[g]
        /\ target' \in [Files -> Entry] /\ backup' \in [Files -> Entry]
    BY <1>4, <2>1 DEF VerifyInv, TreeOK, Entry
  <2>3. TreeOK'
    BY <1>2, <2>2 DEF VerifyInv, TreeOK
  <2>4. BackedUp'
    BY <1>1, <1>4, <2>1, <2>2, OnePlace DEF VerifyInv, FilesInv, BackedUp
  <2>5. StagedIsThere'
    BY <1>1, <1>2, <2>1, <2>2, OnePlace DEF VerifyInv, FilesInv, StagedIsThere
  <2>6. SourceInPlace'
    BY <1>1, <1>2, <1>4, <2>1, <2>2 DEF VerifyInv, FilesInv, SourceInPlace
  <2>7. EntriesCarry
    BY <1>1, <1>2, <2>1, <2>2 DEF EntriesCarry, Carried
  <2>. QED
    BY <1>1, <1>2, <2>3, <2>4, <2>5, <2>6, <2>7, WritersStay DEF VerifyInv, FilesInv
<1>. QED
  BY <1>1, <1>3, <1>4

(* What was staged goes to the target, with the edits it carries.          *)
LEMMA ShowKeeps ==
  ASSUME VerifyInv, NEW c \in Calls, Show(c)
  PROVE  VerifyInv'
<1>. DEFINE f == Head(call[c].swap)
<1>1. /\ LocksOK' /\ UNCHANGED Away /\ Due' \subseteq Due
      /\ f \in Hidden /\ Hidden' = Hidden \ {f}
      /\ \/ /\ proposed[f] # Absent
            /\ target' = [target EXCEPT ![f] = proposed[f]]
            /\ proposed' = [proposed EXCEPT ![f] = Absent]
            /\ Due' \subseteq Due \ {f} /\ Shown' = Shown \cup {f}
            /\ UNCHANGED disturbed
         \/ /\ disturbed' = disturbed \cup {f}
            /\ UNCHANGED <<target, proposed, Shown>>
  BY ShowMoves DEF VerifyInv
<1>2. UNCHANGED <<backup, editor, user, source>>
  BY DEF Show
<1>. HIDE DEF f
<1>3. f \in Files /\ f \in Due /\ f \notin Away /\ f \notin Shown
  BY <1>1, OnePlace DEF VerifyInv
<1>4. CASE /\ proposed[f] # Absent
           /\ target' = [target EXCEPT ![f] = proposed[f]]
           /\ proposed' = [proposed EXCEPT ![f] = Absent]
           /\ Due' \subseteq Due \ {f} /\ Shown' = Shown \cup {f}
           /\ UNCHANGED disturbed
  <2>1. /\ target'[f] = proposed[f] /\ proposed'[f] = Absent
        /\ \A g \in Files \ {f} : target'[g] = target[g] /\ proposed'[g] = proposed[g]
        /\ target' \in [Files -> Entry] /\ proposed' \in [Files -> Entry]
    BY <1>3, <1>4 DEF VerifyInv, TreeOK, Entry
  <2>2. TreeOK'
    BY <1>2, <1>4, <2>1 DEF VerifyInv, TreeOK
  <2>3. BackedUp'
    BY <1>1, <1>2, <1>4 DEF VerifyInv, FilesInv, BackedUp
  <2>4. StagedIsThere'
    BY <1>1, <1>3, <1>4, <2>1, OnePlace DEF VerifyInv, FilesInv, StagedIsThere
  <2>5. SourceInPlace'
    BY <1>1, <1>2, <1>3, <1>4, <2>1 DEF VerifyInv, FilesInv, SourceInPlace
  <2>6. EntriesCarry
    BY <1>3, <1>4, <2>1 DEF EntriesCarry, Carried
  <2>7. disturbed \subseteq disturbed'
    BY <1>4
  <2>. QED
    BY <1>1, <1>2, <2>2, <2>3, <2>4, <2>5, <2>6, <2>7, WritersStay DEF VerifyInv, FilesInv
<1>5. CASE disturbed' = disturbed \cup {f} /\ UNCHANGED <<target, proposed, Shown>>
  <2>1. TreeOK'
    BY <1>2, <1>3, <1>5 DEF VerifyInv, TreeOK
  <2>2. BackedUp' /\ StagedIsThere'
    BY <1>1, <1>2, <1>5 DEF VerifyInv, FilesInv, BackedUp, StagedIsThere
  <2>3. SourceInPlace'
    BY <1>1, <1>2, <1>5 DEF VerifyInv, FilesInv, SourceInPlace
  <2>4. EntriesCarry
    BY <1>5 DEF EntriesCarry, Carried
  <2>. QED
    BY <1>1, <1>2, <1>5, <2>1, <2>2, <2>3, <2>4, WritersStay DEF VerifyInv, FilesInv
<1>. QED
  BY <1>1, <1>4, <1>5

(* The target goes back to being staged, with what it carries.             *)
LEMMA PutBackKeeps ==
  ASSUME VerifyInv, NEW c \in Calls, PutBack(c)
  PROVE  VerifyInv'
<1>. DEFINE f == Last(call[c].swapped)
<1>1. /\ LocksOK' /\ UNCHANGED <<Due, Hidden>>
      /\ f \in Shown /\ Shown' = Shown \ {f}
      /\ \/ /\ proposed' = [proposed EXCEPT ![f] = target[f]]
            /\ target' = [target EXCEPT ![f] = Absent]
            /\ Away' = Away \cup {f}
            /\ UNCHANGED disturbed
         \/ /\ disturbed' = disturbed \cup {f}
            /\ UNCHANGED <<target, proposed, Away>>
  BY PutBackMoves DEF VerifyInv
<1>2. UNCHANGED <<backup, editor, user, source>>
  BY DEF PutBack
<1>. HIDE DEF f
<1>3. /\ f \in Files /\ f \notin Away /\ f \notin Due
      /\ f \notin disturbed => target[f] # Absent
  BY <1>1, OnePlace DEF VerifyInv, FilesInv, StagedIsThere
<1>4. CASE /\ proposed' = [proposed EXCEPT ![f] = target[f]]
           /\ target' = [target EXCEPT ![f] = Absent]
           /\ Away' = Away \cup {f}
           /\ UNCHANGED disturbed
  <2>1. /\ target'[f] = Absent /\ proposed'[f] = target[f]
        /\ \A g \in Files \ {f} : target'[g] = target[g] /\ proposed'[g] = proposed[g]
        /\ target' \in [Files -> Entry] /\ proposed' \in [Files -> Entry]
    BY <1>3, <1>4 DEF VerifyInv, TreeOK, Entry
  <2>2. TreeOK'
    BY <1>2, <1>4, <2>1 DEF VerifyInv, TreeOK
  <2>3. BackedUp'
    BY <1>1, <1>2, <1>4 DEF VerifyInv, FilesInv, BackedUp
  <2>4. StagedIsThere'
    BY <1>1, <1>3, <1>4, <2>1 DEF VerifyInv, FilesInv, StagedIsThere
  <2>5. SourceInPlace'
    BY <1>1, <1>2, <1>3, <1>4, <2>1 DEF VerifyInv, FilesInv, SourceInPlace
  <2>6. EntriesCarry
    BY <1>1, <1>3, <1>4, <2>1 DEF EntriesCarry, Carried
  <2>7. disturbed \subseteq disturbed'
    BY <1>4
  <2>. QED
    BY <1>1, <1>2, <2>2, <2>3, <2>4, <2>5, <2>6, <2>7, WritersStay DEF VerifyInv, FilesInv
<1>5. CASE disturbed' = disturbed \cup {f} /\ UNCHANGED <<target, proposed, Away>>
  <2>1. TreeOK'
    BY <1>2, <1>3, <1>5 DEF VerifyInv, TreeOK
  <2>2. BackedUp' /\ StagedIsThere'
    BY <1>1, <1>2, <1>5 DEF VerifyInv, FilesInv, BackedUp, StagedIsThere
  <2>3. SourceInPlace'
    BY <1>1, <1>2, <1>5 DEF VerifyInv, FilesInv, SourceInPlace
  <2>4. EntriesCarry
    BY <1>1, <1>5 DEF EntriesCarry, Carried
  <2>. QED
    BY <1>1, <1>2, <1>5, <2>1, <2>2, <2>3, <2>4, WritersStay DEF VerifyInv, FilesInv
<1>. QED
  BY <1>1, <1>4, <1>5

(* The original is at the target again.                                    *)
LEMMA ReinstateKeeps ==
  ASSUME VerifyInv, NEW c \in Calls, Reinstate(c)
  PROVE  VerifyInv'
<1>. DEFINE f == Last(call[c].swapped)
<1>1. /\ LocksOK' /\ UNCHANGED <<Due, Hidden, Shown>>
      /\ f \in Away /\ Away' = Away \ {f}
      /\ \/ /\ target' = [target EXCEPT ![f] = backup[f]]
            /\ backup' = [backup EXCEPT ![f] = Absent]
            /\ UNCHANGED disturbed
         \/ /\ disturbed' = disturbed \cup {f}
            /\ UNCHANGED <<target, backup>>
  BY ReinstateMoves DEF VerifyInv
<1>2. UNCHANGED <<proposed, editor, user, source>>
  BY DEF Reinstate
<1>. HIDE DEF f
<1>3. /\ f \in Files /\ f \notin Shown /\ f \notin Hidden
      /\ f \notin disturbed => proposed[f] # Absent
  BY <1>1, OnePlace DEF VerifyInv, FilesInv, StagedIsThere
<1>4. CASE /\ target' = [target EXCEPT ![f] = backup[f]]
           /\ backup' = [backup EXCEPT ![f] = Absent]
           /\ UNCHANGED disturbed
  <2>1. /\ target'[f] = backup[f] /\ backup'[f] = Absent
        /\ \A g \in Files \ {f} : target'[g] = target[g] /\ backup'[g] = backup[g]
        /\ target' \in [Files -> Entry] /\ backup' \in [Files -> Entry]
    BY <1>3, <1>4 DEF VerifyInv, TreeOK, Entry
  <2>2. TreeOK'
    BY <1>2, <1>4, <2>1 DEF VerifyInv, TreeOK
  <2>3. BackedUp'
    <3>1. \A g \in Hidden' \cup Away' \cup Shown' :
            g \in Hidden \cup Away \cup Shown /\ g # f /\ g \in Files
      BY <1>1, <1>3, OnePlace DEF VerifyInv
    <3>. QED
      BY <2>1, <3>1 DEF VerifyInv, FilesInv, BackedUp
  <2>4. StagedIsThere'
    BY <1>1, <1>2, <1>3, <1>4, <2>1, OnePlace DEF VerifyInv, FilesInv, StagedIsThere
  <2>5. SourceInPlace'
    BY <1>1, <1>2, <1>3, <1>4, <2>1 DEF VerifyInv, FilesInv, SourceInPlace
  <2>6. EntriesCarry
    BY <1>1, <1>2, <1>3, <1>4, <2>1 DEF EntriesCarry, Carried
  <2>7. disturbed \subseteq disturbed'
    BY <1>4
  <2>. QED
    BY <1>1, <1>2, <2>2, <2>3, <2>4, <2>5, <2>6, <2>7, WritersStay DEF VerifyInv, FilesInv
<1>5. CASE disturbed' = disturbed \cup {f} /\ UNCHANGED <<target, backup>>
  <2>1. TreeOK'
    BY <1>2, <1>3, <1>5 DEF VerifyInv, TreeOK
  <2>2. BackedUp' /\ StagedIsThere'
    BY <1>1, <1>2, <1>5 DEF VerifyInv, FilesInv, BackedUp, StagedIsThere
  <2>3. SourceInPlace'
    BY <1>1, <1>2, <1>5 DEF VerifyInv, FilesInv, SourceInPlace
  <2>4. EntriesCarry
    BY <1>1, <1>2, <1>5 DEF EntriesCarry, Carried
  <2>. QED
    BY <1>1, <1>2, <1>5, <2>1, <2>2, <2>3, <2>4, WritersStay DEF VerifyInv, FilesInv
<1>. QED
  BY <1>1, <1>4, <1>5

-----------------------------------------------------------------------------
(* The edits                                                               *)

(* An edit starts from what the user would be shown, or from nothing.      *)
LEMMA ReadKeeps ==
  ASSUME VerifyInv, NEW e \in Edits, editor[e].pc = "none", NEW f \in Files,
         NEW base \in Content, NEW whole \in BOOLEAN, NEW busy \in BOOLEAN,
         editor' = [Crossing(f) EXCEPT ![e] =
                      [pc |-> "read", file |-> f, base |-> base, whole |-> whole, crossed |-> busy]],
         UNCHANGED <<tree, lock, call, user, history>>,
         ~whole => base = Base(f) /\ target[f] # Absent
  PROVE  VerifyInv'
<1>. DEFINE row == [pc |-> "read", file |-> f, base |-> base, whole |-> whole, crossed |-> busy]
<1>1. LocksOK' /\ UNCHANGED <<Due, Hidden, Away, Shown>>
  BY CallsStay DEF VerifyInv
<1>2. TreeOK' /\ FilesInv' /\ EntriesCarry
  BY <1>1, TreeStays DEF VerifyInv
<1>3. editor \in [Edits -> EditorRow]
  BY DEF VerifyInv, WritersOK
<1>4. row \in EditorRow /\ row.pc = "read" /\ row.file = f /\ row.base = base /\ row.whole = whole
  BY DEF EditorRow
<1>5. editor'[e] = row /\ editor' \in [Edits -> EditorRow]
  <2>1. ASSUME NEW d \in Edits PROVE Crossing(f)[d] \in EditorRow
    <3>1. CASE editor[d].pc = "read" /\ editor[d].file = f
      <4>1. Crossing(f)[d] = [editor[d] EXCEPT !.crossed = TRUE]
        BY <3>1 DEF Crossing
      <4>. QED
        BY <1>3, <3>1, <4>1 DEF EditorRow
    <3>2. CASE ~(editor[d].pc = "read" /\ editor[d].file = f)
      BY <1>3, <3>2 DEF Crossing
    <3>. QED
      BY <3>1, <3>2
  <2>2. DOMAIN Crossing(f) = Edits
    BY DEF Crossing
  <2>. QED
    BY <1>4, <2>1, <2>2 DEF Crossing
<1>. HIDE DEF row
<1>6. ASSUME NEW d \in Edits, d # e
      PROVE  /\ editor'[d].pc = editor[d].pc /\ editor'[d].file = editor[d].file
             /\ editor'[d].base = editor[d].base /\ editor'[d].whole = editor[d].whole
             /\ editor[d].pc # "read" => editor'[d] = editor[d]
  <2>1. editor'[d] = Crossing(f)[d]
    BY <1>6 DEF Crossing
  <2>2. CASE editor[d].pc = "read" /\ editor[d].file = f
    <3>1. editor'[d] = [editor[d] EXCEPT !.crossed = TRUE]
      BY <2>1, <2>2 DEF Crossing
    <3>. QED
      BY <1>3, <2>2, <3>1 DEF EditorRow
  <2>3. CASE ~(editor[d].pc = "read" /\ editor[d].file = f)
    BY <2>1, <2>3 DEF Crossing
  <2>. QED
    BY <2>2, <2>3
<1>7. WritersOK'
  BY <1>4, <1>5, <1>6 DEF VerifyInv, WritersOK
<1>8. UNCHANGED <<target, proposed, backup, source, disturbed, user>>
  BY DEF tree, history
<1>9. UserWrote'
  BY <1>8 DEF VerifyInv, UserWrote
<1>10. AllCarried'
  <2>. SUFFICES ASSUME NEW d \in Edits, Uncrossed(d)'
                PROVE  Carried(d, editor[d].file)'
    BY DEF AllCarried
  <2>1. d # e
    BY <1>4, <1>5 DEF Uncrossed
  <2>2. editor'[d] = editor[d] /\ Uncrossed(d)
    BY <1>6, <1>8, <2>1 DEF Uncrossed
  <2>. DEFINE g == editor[d].file
  <2>3. Carried(d, g) /\ g' = g
    BY <2>2 DEF VerifyInv, AllCarried
  <2>4. ASSUME NEW x \in Edits, editor'[x].pc = "read", editor'[x].file = g, ~editor'[x].whole
        PROVE  d \in editor'[x].base
    <3>1. CASE x = e
      <4>1. g = f /\ base = Base(f) /\ target[f] # Absent /\ editor'[x].base = base
        BY <1>4, <1>5, <2>4, <3>1
      <4>. QED
        BY <2>3, <4>1 DEF Base, Carried
    <3>2. CASE x # e
      BY <1>6, <2>3, <2>4, <3>2 DEF Carried
    <3>. QED
      BY <3>1, <3>2
  <2>. QED
    BY <1>1, <1>8, <2>3, <2>4 DEF Carried
<1>. QED
  BY <1>1, <1>2, <1>7, <1>9, <1>10 DEF VerifyInv

(* apply_diff reads.                                                       *)
LEMMA EditReadKeeps ==
  ASSUME VerifyInv, NEW e \in Edits, EditRead(e)
  PROVE  VerifyInv'
<1>1. PICK f \in Files :
        /\ target[f] # Absent
        /\ editor' = [Crossing(f) EXCEPT ![e] =
             [pc |-> "read", file |-> f, base |-> Base(f), whole |-> FALSE, crossed |-> Busy(f, e)]]
  BY DEF EditRead
<1>2. Base(f) \in Content
  BY <1>1 DEF VerifyInv, TreeOK, Entry, Base
<1>3. Busy(f, e) \in BOOLEAN
  BY DEF Busy
<1>4. editor[e].pc = "none" /\ UNCHANGED <<tree, lock, call, user, history>>
  BY DEF EditRead
<1>. QED
  BY <1>1, <1>2, <1>3, <1>4, ReadKeeps

(* write_file sees no target.                                              *)
LEMMA NewFileKeeps ==
  ASSUME VerifyInv, NEW e \in Edits, NewFile(e)
  PROVE  VerifyInv'
<1>1. PICK f \in Files :
        editor' = [Crossing(f) EXCEPT ![e] =
          [pc |-> "read", file |-> f, base |-> {}, whole |-> TRUE, crossed |-> Busy(f, e)]]
  BY DEF NewFile
<1>2. {} \in Content
  BY DEF Content
<1>3. Busy(f, e) \in BOOLEAN
  BY DEF Busy
<1>4. editor[e].pc = "none" /\ UNCHANGED <<tree, lock, call, user, history>>
  BY DEF NewFile
<1>. QED
  BY <1>1, <1>2, <1>3, <1>4, ReadKeeps

(* Edits that are marked as gone.                                           *)
LEMMA DroppedEdits ==
  ASSUME VerifyInv, NEW gone, NEW as \in {"rewritten", "rejected"}, NEW d \in Edits
  PROVE  /\ Dropped(gone, as)[d] \in EditorRow
         /\ Dropped(gone, as)[d].file = editor[d].file /\ Dropped(gone, as)[d].base = editor[d].base
         /\ Dropped(gone, as)[d].whole = editor[d].whole
         /\ Dropped(gone, as)[d].crossed = editor[d].crossed
         /\ Dropped(gone, as)[d].pc = IF d \in gone /\ editor[d].pc = "staged" THEN as
                                      ELSE editor[d].pc
<1>1. editor[d] \in EditorRow
  BY DEF VerifyInv, WritersOK
<1>2. CASE d \in gone /\ editor[d].pc = "staged"
  <2>1. Dropped(gone, as)[d] = [editor[d] EXCEPT !.pc = as]
    BY <1>2 DEF Dropped
  <2>. QED
    BY <1>1, <1>2, <2>1 DEF EditorRow
<1>3. CASE ~(d \in gone /\ editor[d].pc = "staged")
  <2>1. Dropped(gone, as)[d] = editor[d]
    BY <1>3 DEF Dropped
  <2>. QED
    BY <1>1, <1>3, <2>1
<1>. QED
  BY <1>2, <1>3

(* The edit is staged: it carries what it started from.                    *)
LEMMA EditWriteKeeps ==
  ASSUME VerifyInv, NEW e \in Edits, EditWrite(e)
  PROVE  VerifyInv'
<1>. DEFINE f == editor[e].file
            gone == EditsIn(Base(f))
            before == IF editor[e].whole THEN Dropped(gone, "rewritten") ELSE editor
            busy == Busy(f, e)
<1>1. /\ editor[e].pc = "read" /\ f \in Files /\ editor[e] \in EditorRow
      /\ editor \in [Edits -> EditorRow]
  BY DEF EditWrite, VerifyInv, WritersOK
<1>2. /\ proposed' = [proposed EXCEPT ![f] = editor[e].base \union {e}]
      /\ editor' = [before EXCEPT ![e].pc = "staged", ![e].crossed = @ \/ busy]
      /\ UNCHANGED <<target, backup, lock, call, user, history, source, disturbed>>
  BY DEF EditWrite, history
<1>3. LocksOK' /\ UNCHANGED <<Due, Hidden, Away, Shown>>
  BY <1>2, CallsStay DEF VerifyInv
<1>4. ASSUME NEW d \in Edits
      PROVE  /\ before[d] \in EditorRow
             /\ before[d].file = editor[d].file /\ before[d].base = editor[d].base
             /\ before[d].whole = editor[d].whole /\ before[d].crossed = editor[d].crossed
             /\ before[d].pc = "staged" =>
                  editor[d].pc = "staged" /\ (editor[e].whole => d \notin gone)
             /\ before[d].pc = "read" <=> editor[d].pc = "read"
             /\ before[d].pc = "none" <=> editor[d].pc = "none"
  BY <1>1, DroppedEdits
<1>5. busy \in BOOLEAN
  BY DEF Busy
<1>6. DOMAIN before = Edits
  BY <1>1 DEF Dropped
<1>. HIDE DEF before, busy, gone
<1>7. /\ editor'[e].pc = "staged" /\ editor'[e].file = f
      /\ editor'[e].crossed = (editor[e].crossed \/ busy)
      /\ editor'[e] \in EditorRow
  <2>1. editor'[e] = [before[e] EXCEPT !.pc = "staged", !.crossed = @ \/ busy]
    BY <1>2, <1>6
  <2>2. (before[e].crossed \/ busy) \in BOOLEAN
    OBVIOUS
  <2>. QED
    BY <1>4, <2>1, <2>2 DEF EditorRow
<1>8. \A d \in Edits \ {e} : editor'[d] = before[d]
  BY <1>2, <1>6
<1>9. editor' \in [Edits -> EditorRow]
  <2>1. DOMAIN editor' = Edits
    BY <1>2, <1>6
  <2>2. \A d \in Edits : editor'[d] \in EditorRow
    BY <1>4, <1>7, <1>8
  <2>3. editor' = [d \in Edits |-> editor'[d]]
    BY <1>2, <2>1
  <2>. QED
    BY <2>2, <2>3
<1>10. WritersOK'
  <2>1. ASSUME NEW d \in Edits, editor'[d].pc # "none" PROVE editor'[d].file \in Files
    <3>1. CASE d = e
      BY <1>1, <1>7, <3>1
    <3>2. CASE d # e
      <4>1. editor'[d].file = editor[d].file /\ editor[d].pc # "none"
        BY <1>4, <1>8, <2>1, <3>2
      <4>. QED
        BY <4>1 DEF VerifyInv, WritersOK
    <3>. QED
      BY <3>1, <3>2
  <2>2. user' = user
    BY <1>2
  <2>. QED
    BY <1>9, <2>1, <2>2 DEF VerifyInv, WritersOK
<1>11. /\ proposed'[f] = editor[e].base \cup {e} /\ proposed'[f] # Absent
       /\ \A g \in Files \ {f} : proposed'[g] = proposed[g]
       /\ proposed' \in [Files -> Entry]
  <2>1. editor[e].base \cup {e} \in Content
    BY <1>1 DEF EditorRow, Content
  <2>. QED
    BY <1>1, <1>2, <2>1, AbsentAssumption DEF VerifyInv, TreeOK, Entry, Content
<1>12. TreeOK' /\ FilesInv'
  BY <1>1, <1>2, <1>3, <1>11
     DEF VerifyInv, TreeOK, FilesInv, BackedUp, StagedIsThere, SourceInPlace
<1>13. UserWrote'
  BY <1>2 DEF VerifyInv, UserWrote
<1>14. AllCarried'
  <2>. SUFFICES ASSUME NEW d \in Edits, Uncrossed(d)'
                PROVE  Carried(d, editor[d].file)'
    BY DEF AllCarried
  <2>1. CASE d = e
    <3>1. ~busy /\ f \notin disturbed
      <4>1. ~editor'[e].crossed /\ editor'[e].file \notin disturbed'
        BY <2>1 DEF Uncrossed
      <4>2. ~(editor[e].crossed \/ busy)
        BY <1>7, <4>1
      <4>3. disturbed' = disturbed /\ editor'[e].file = f
        BY <1>2, <1>7
      <4>. QED
        BY <4>1, <4>2, <4>3
    <3>2. /\ lock[f] = Free /\ user.file # f
          /\ \A x \in Edits \ {e} : ~(editor[x].pc = "read" /\ editor[x].file = f)
      BY <3>1 DEF busy, Busy
    <3>3. f \notin Shown
      BY <3>2, OnePlace DEF VerifyInv
    <3>4. \A x \in Edits : ~(editor'[x].pc = "read" /\ editor'[x].file = f)
      BY <1>4, <1>7, <1>8, <3>2
    <3>5. e \in proposed'[f] /\ user' = user
      BY <1>2, <1>11
    <3>. HIDE DEF f
    <3>. QED
      BY <1>3, <1>7, <1>11, <2>1, <3>2, <3>3, <3>4, <3>5 DEF Carried
  <2>2. CASE d # e
    <3>. DEFINE g == editor[d].file
    <3>1. /\ Uncrossed(d) /\ editor'[d].file = g /\ g \in Files
          /\ editor[e].whole => d \notin gone
      <4>1. editor'[d] = before[d] /\ disturbed' = disturbed
        BY <1>2, <1>8, <2>2
      <4>2. before[d].pc = "staged" /\ ~before[d].crossed /\ before[d].file \notin disturbed
        BY <4>1 DEF Uncrossed
      <4>3. editor[d].pc = "staged" /\ (editor[e].whole => d \notin gone)
        BY <1>4, <4>2
      <4>4. before[d].file = editor[d].file /\ before[d].crossed = editor[d].crossed
        BY <1>4
      <4>5. editor[d].file \in Files
        BY <4>3 DEF VerifyInv, WritersOK
      <4>. QED
        BY <4>1, <4>2, <4>3, <4>4, <4>5 DEF Uncrossed
    <3>2. Carried(d, g)
      BY <3>1 DEF VerifyInv, AllCarried
    <3>3. ASSUME NEW x \in Edits, editor'[x].pc = "read", editor'[x].file = g, ~editor'[x].whole
          PROVE  d \in editor'[x].base
      <4>1. x # e /\ editor'[x] = before[x]
        BY <1>7, <1>8, <3>3
      <4>. QED
        BY <1>4, <3>2, <3>3, <4>1 DEF Carried
    <3>4. proposed'[g] # Absent => d \in proposed'[g]
      <4>1. CASE g # f
        BY <1>11, <3>1, <3>2, <4>1 DEF Carried
      <4>2. CASE g = f
        <5>1. CASE editor[e].whole
          <6>1. d \in gone
            BY <3>2, <4>2 DEF gone, EditsIn, Base, Carried
          <6>. QED
            BY <3>1, <5>1, <6>1
        <5>2. CASE ~editor[e].whole
          BY <1>1, <1>11, <3>2, <4>2, <5>2 DEF Carried
        <5>. QED
          BY <5>1, <5>2
      <4>. QED
        BY <4>1, <4>2
    <3>5. proposed'[g] = Absent => target'[g] # Absent /\ d \in target'[g]
      BY <1>2, <1>11, <3>1, <3>2 DEF Carried
    <3>6. /\ g \in Shown' => d \in target'[g]
          /\ user'.pc # "none" /\ user'.file = g => d \in user'.content
      BY <1>2, <1>3, <3>2 DEF Carried
    <3>. HIDE DEF g
    <3>. QED
      BY <3>1, <3>3, <3>4, <3>5, <3>6 DEF Carried
  <2>. QED
    BY <2>1, <2>2
<1>. QED
  BY <1>3, <1>10, <1>12, <1>13, <1>14 DEF VerifyInv

-----------------------------------------------------------------------------
(* The user, and a death of the process                                     *)

(* The user confirms what is staged, which carries every edit.             *)
LEMMA ConfirmReadKeeps ==
  ASSUME VerifyInv, ConfirmRead
  PROVE  VerifyInv'
<1>1. PICK f \in Files :
        /\ proposed[f] # Absent
        /\ user' = [pc |-> "write", file |-> f, content |-> proposed[f]]
        /\ editor' = Crossing(f)
  BY DEF ConfirmRead
<1>2. /\ user.pc = "none"
      /\ UNCHANGED <<tree, lock, call, history, target, proposed, backup, source, disturbed>>
  BY DEF ConfirmRead, tree, history
<1>3. LocksOK' /\ UNCHANGED <<Due, Hidden, Away, Shown>>
  BY <1>2, CallsStay DEF VerifyInv
<1>4. TreeOK' /\ FilesInv'
  BY <1>2, <1>3, TreeStays DEF VerifyInv
<1>5. /\ editor' \in [Edits -> EditorRow]
      /\ \A e \in Edits : /\ editor'[e].pc = editor[e].pc /\ editor'[e].file = editor[e].file
                          /\ editor'[e].base = editor[e].base
                          /\ editor'[e].whole = editor[e].whole
                          /\ Uncrossed(e)' => Uncrossed(e)
  BY <1>1, <1>2, CrossedEdits
<1>6. proposed[f] \in Content
  BY <1>1 DEF VerifyInv, TreeOK, Entry
<1>7. /\ user' \in UserRow /\ user'.pc = "write" /\ user'.file = f /\ user'.content = proposed[f]
  BY <1>1, <1>6 DEF UserRow
<1>8. WritersOK'
  BY <1>5, <1>7 DEF VerifyInv, WritersOK
<1>9. UserWrote'
  BY <1>7 DEF UserWrote
<1>10. AllCarried'
  <2>. SUFFICES ASSUME NEW e \in Edits, Uncrossed(e)'
                PROVE  Carried(e, editor[e].file)'
    BY DEF AllCarried
  <2>. DEFINE g == editor[e].file
  <2>1. Uncrossed(e) /\ editor'[e].file = g
    BY <1>5
  <2>2. Carried(e, g)
    BY <2>1 DEF VerifyInv, AllCarried
  <2>3. user'.file = g => e \in user'.content
    BY <1>1, <1>7, <2>2 DEF Carried
  <2>4. \A d \in Edits : editor'[d].pc = "read" /\ editor'[d].file = g /\ ~editor'[d].whole =>
          e \in editor'[d].base
    BY <1>5, <2>2 DEF Carried
  <2>. HIDE DEF g
  <2>. QED
    BY <1>2, <1>3, <2>1, <2>2, <2>3, <2>4 DEF Carried
<1>. QED
  BY <1>3, <1>4, <1>8, <1>9, <1>10 DEF VerifyInv

(* The target, and with it the source, become what was confirmed.          *)
LEMMA ConfirmWriteKeeps ==
  ASSUME VerifyInv, ConfirmWrite
  PROVE  VerifyInv'
<1>. DEFINE f == user.file
<1>1. /\ user.pc = "write" /\ f \in Files /\ user \in UserRow /\ user.content \in Content
  BY DEF ConfirmWrite, VerifyInv, WritersOK, UserRow
<1>2. /\ target' = [target EXCEPT ![f] = user.content]
      /\ source' = [source EXCEPT ![f] = user.content]
      /\ disturbed' = IF lock[f] = Free THEN disturbed ELSE disturbed \union {f}
      /\ user' = [user EXCEPT !.pc = "unlink"]
      /\ UNCHANGED <<proposed, backup, lock, call, editor>>
  BY DEF ConfirmWrite, Disturb
<1>3. LocksOK' /\ UNCHANGED <<Due, Hidden, Away, Shown>>
  BY <1>2, CallsStay DEF VerifyInv
<1>4. /\ user' \in UserRow /\ user'.pc = "unlink" /\ user'.file = f /\ user'.content = user.content
  BY <1>1, <1>2 DEF UserRow
<1>. HIDE DEF f
<1>5. /\ target'[f] = user.content /\ source'[f] = user.content /\ target'[f] # Absent
      /\ \A g \in Files \ {f} : target'[g] = target[g] /\ source'[g] = source[g]
      /\ target' \in [Files -> Entry] /\ source' \in [Files -> Entry]
  BY <1>1, <1>2, AbsentAssumption DEF VerifyInv, TreeOK, Entry, Content
<1>6. disturbed \subseteq disturbed' /\ disturbed' \subseteq Files
  BY <1>1, <1>2 DEF VerifyInv, TreeOK
<1>7. f \in Due \cup Away \cup Shown \cup Hidden => f \in disturbed'
  BY <1>2, OnePlace DEF VerifyInv
<1>8. TreeOK'
  BY <1>2, <1>5, <1>6 DEF VerifyInv, TreeOK
<1>9. BackedUp' /\ StagedIsThere'
  BY <1>2, <1>3, <1>5, <1>6, OnePlace DEF VerifyInv, FilesInv, BackedUp, StagedIsThere
<1>10. SourceInPlace'
  <2>. SUFFICES ASSUME NEW g \in Files \ disturbed'
                PROVE  IF g \in Hidden \cup Away \cup Shown THEN backup[g] = source'[g]
                       ELSE target'[g] = source'[g] /\ backup[g] = Absent
    BY <1>2, <1>3 DEF SourceInPlace
  <2>1. CASE g = f
    BY <1>5, <1>6, <1>7, <2>1 DEF VerifyInv, FilesInv, SourceInPlace
  <2>2. CASE g # f
    BY <1>5, <1>6, <2>2 DEF VerifyInv, FilesInv, SourceInPlace
  <2>. QED
    BY <2>1, <2>2
<1>11. WritersOK'
  BY <1>1, <1>2, <1>4 DEF VerifyInv, WritersOK
<1>12. UserWrote'
  BY <1>4, <1>5 DEF UserWrote
<1>13. AllCarried'
  <2>. SUFFICES ASSUME NEW e \in Edits, Uncrossed(e)'
                PROVE  Carried(e, editor[e].file)'
    BY DEF AllCarried
  <2>. DEFINE g == editor[e].file
  <2>1. Uncrossed(e) /\ editor' = editor /\ g \in Files /\ g \notin disturbed'
    BY <1>2, <1>6 DEF Uncrossed, VerifyInv, WritersOK
  <2>2. Carried(e, g)
    BY <2>1 DEF VerifyInv, AllCarried
  <2>3. /\ proposed'[g] = Absent => target'[g] # Absent /\ e \in target'[g]
        /\ g \in Shown' => e \in target'[g]
    <3>1. CASE g = f
      BY <1>1, <1>5, <2>2, <1>3, <1>7, <2>1, <3>1 DEF f, Carried
    <3>2. CASE g # f
      BY <1>2, <1>3, <1>5, <2>1, <2>2, <3>2 DEF Carried
    <3>. QED
      BY <3>1, <3>2
  <2>4. user'.file = g => e \in user'.content
    BY <1>1, <1>4, <2>2 DEF f, Carried
  <2>. HIDE DEF g
  <2>. QED
    BY <1>2, <2>1, <2>2, <2>3, <2>4 DEF g, Carried
<1>. QED
  BY <1>3, <1>8, <1>9, <1>10, <1>11, <1>12, <1>13 DEF VerifyInv, FilesInv

(* A staged file is removed that no verification holds, or it is disturbed.  *)
LEMMA RemovedFiles ==
  ASSUME VerifyInv, NEW f \in Files, Disturb(f),
         proposed' = [proposed EXCEPT ![f] = Absent],
         UNCHANGED <<target, backup, lock, call, source>>
  PROVE  /\ LocksOK' /\ UNCHANGED <<Due, Hidden, Away, Shown>>
         /\ TreeOK' /\ FilesInv'
         /\ disturbed \subseteq disturbed'
         /\ proposed'[f] = Absent /\ \A g \in Files \ {f} : proposed'[g] = proposed[g]
         /\ f \notin disturbed' =>
              f \notin Shown /\ f \notin disturbed /\ target[f] = source[f]
<1>1. LocksOK' /\ UNCHANGED <<Due, Hidden, Away, Shown>>
  BY CallsStay DEF VerifyInv
<1>2. /\ disturbed' = IF lock[f] = Free THEN disturbed ELSE disturbed \union {f}
      /\ disturbed \subseteq disturbed' /\ disturbed' \subseteq Files
  BY DEF Disturb, VerifyInv, TreeOK
<1>3. /\ proposed'[f] = Absent /\ \A g \in Files \ {f} : proposed'[g] = proposed[g]
      /\ proposed' \in [Files -> Entry]
  BY DEF VerifyInv, TreeOK, Entry
<1>4. f \in Due \cup Away \cup Shown \cup Hidden => f \in disturbed'
  BY <1>2, OnePlace DEF VerifyInv
<1>5. TreeOK'
  BY <1>2, <1>3 DEF VerifyInv, TreeOK
<1>6. BackedUp'
  BY <1>1 DEF VerifyInv, FilesInv, BackedUp
<1>7. StagedIsThere'
  BY <1>1, <1>2, <1>3, <1>4, OnePlace DEF VerifyInv, FilesInv, StagedIsThere
<1>8. SourceInPlace'
  BY <1>1, <1>2 DEF VerifyInv, FilesInv, SourceInPlace
<1>9. f \notin disturbed' => f \notin Shown /\ f \notin disturbed /\ target[f] = source[f]
  BY <1>2, <1>4 DEF VerifyInv, FilesInv, SourceInPlace
<1>. QED
  BY <1>1, <1>2, <1>3, <1>5, <1>6, <1>7, <1>8, <1>9 DEF FilesInv

(* What was staged is in the source.                                       *)
LEMMA ConfirmUnlinkKeeps ==
  ASSUME VerifyInv, ConfirmUnlink
  PROVE  VerifyInv'
<1>. DEFINE f == user.file
<1>1. user.pc = "unlink" /\ f \in Files /\ user \in UserRow /\ user.content \in Content
  BY DEF ConfirmUnlink, VerifyInv, WritersOK, UserRow
<1>2. /\ proposed' = [proposed EXCEPT ![f] = Absent] /\ Disturb(f)
      /\ user' = NoUser
      /\ UNCHANGED <<target, backup, lock, call, editor, source>>
  BY DEF ConfirmUnlink
<1>3. /\ LocksOK' /\ UNCHANGED <<Due, Hidden, Away, Shown>>
      /\ TreeOK' /\ FilesInv'
      /\ disturbed \subseteq disturbed'
      /\ proposed'[f] = Absent /\ \A g \in Files \ {f} : proposed'[g] = proposed[g]
      /\ f \notin disturbed' => f \notin Shown /\ f \notin disturbed /\ target[f] = source[f]
  BY <1>1, <1>2, RemovedFiles
<1>4. NoUser \in UserRow /\ NoUser.pc = "none"
  BY DEF NoUser, UserRow, Content
<1>5. WritersOK' /\ UserWrote'
  BY <1>2, <1>4 DEF VerifyInv, WritersOK, UserWrote
<1>6. AllCarried'
  <2>. SUFFICES ASSUME NEW e \in Edits, Uncrossed(e)'
                PROVE  Carried(e, editor[e].file)'
    BY DEF AllCarried
  <2>. DEFINE g == editor[e].file
  <2>1. Uncrossed(e) /\ editor' = editor /\ g \in Files /\ g \notin disturbed'
    BY <1>2, <1>3 DEF Uncrossed, VerifyInv, WritersOK
  <2>2. Carried(e, g)
    BY <2>1 DEF VerifyInv, AllCarried
  <2>3. /\ proposed'[g] # Absent => e \in proposed'[g]
        /\ proposed'[g] = Absent => target'[g] # Absent /\ e \in target'[g]
    <3>1. CASE g = f
      <4>1. target[f] = user.content /\ e \in user.content
        BY <1>1, <1>3, <2>1, <2>2, <3>1 DEF VerifyInv, UserWrote, Carried
      <4>2. user.content # Absent
        BY <1>1, AbsentAssumption DEF Content
      <4>. QED
        BY <1>2, <1>3, <3>1, <4>1, <4>2
    <3>2. CASE g # f
      BY <1>2, <1>3, <2>1, <2>2, <3>2 DEF Carried
    <3>. QED
      BY <3>1, <3>2
  <2>4. user'.pc = "none"
    BY <1>2, <1>4
  <2>. HIDE DEF g
  <2>. QED
    BY <1>2, <1>3, <2>1, <2>2, <2>3, <2>4 DEF g, Carried
<1>. QED
  BY <1>3, <1>5, <1>6 DEF VerifyInv

(* What is not in the source is gone, and known to be.                     *)
LEMMA RejectKeeps ==
  ASSUME VerifyInv, Reject
  PROVE  VerifyInv'
<1>1. PICK f \in Files :
        /\ proposed[f] # Absent
        /\ proposed' = [proposed EXCEPT ![f] = Absent]
        /\ editor' = Dropped(proposed[f] \ EditsIn(target[f]), "rejected")
        /\ Disturb(f)
  BY DEF Reject
<1>2. user.pc = "none" /\ UNCHANGED <<target, backup, lock, call, user, source>>
  BY DEF Reject
<1>. DEFINE gone == proposed[f] \ EditsIn(target[f])
<1>3. /\ LocksOK' /\ UNCHANGED <<Due, Hidden, Away, Shown>>
      /\ TreeOK' /\ FilesInv'
      /\ disturbed \subseteq disturbed'
      /\ proposed'[f] = Absent /\ \A g \in Files \ {f} : proposed'[g] = proposed[g]
      /\ f \notin disturbed' => f \notin Shown /\ f \notin disturbed /\ target[f] = source[f]
  BY <1>1, <1>2, RemovedFiles
<1>4. /\ editor' = Dropped(gone, "rejected") /\ DOMAIN editor' = Edits
  BY <1>1 DEF Dropped
<1>. HIDE DEF gone
<1>5. ASSUME NEW d \in Edits
      PROVE  /\ editor'[d] \in EditorRow
             /\ editor'[d].file = editor[d].file /\ editor'[d].base = editor[d].base
             /\ editor'[d].whole = editor[d].whole /\ editor'[d].crossed = editor[d].crossed
             /\ editor'[d].pc = IF d \in gone /\ editor[d].pc = "staged" THEN "rejected"
                                ELSE editor[d].pc
  BY <1>4, DroppedEdits
<1>6. editor' \in [Edits -> EditorRow]
  <2>1. editor' = [d \in Edits |-> editor'[d]]
    BY <1>4 DEF Dropped
  <2>. QED
    BY <1>5, <2>1
<1>7. WritersOK' /\ UserWrote'
  BY <1>2, <1>5, <1>6 DEF VerifyInv, WritersOK, UserWrote
<1>8. AllCarried'
  <2>. SUFFICES ASSUME NEW e \in Edits, Uncrossed(e)'
                PROVE  Carried(e, editor[e].file)'
    BY DEF AllCarried
  <2>. DEFINE g == editor[e].file
  <2>1. /\ Uncrossed(e) /\ editor'[e].file = g /\ g \in Files /\ g \notin disturbed'
        /\ e \notin gone
    <3>1. /\ editor'[e].pc = "staged" /\ ~editor'[e].crossed /\ editor'[e].file \notin disturbed'
      BY DEF Uncrossed
    <3>2. editor[e].pc = "staged" /\ e \notin gone
      BY <1>5, <3>1
    <3>3. editor'[e].file = g /\ editor'[e].crossed = editor[e].crossed
      BY <1>5
    <3>4. g \in Files
      BY <3>2 DEF VerifyInv, WritersOK
    <3>. QED
      BY <1>3, <3>1, <3>2, <3>3, <3>4 DEF Uncrossed
  <2>2. Carried(e, g)
    BY <2>1 DEF VerifyInv, AllCarried
  <2>3. /\ proposed'[g] # Absent => e \in proposed'[g]
        /\ proposed'[g] = Absent => target'[g] # Absent /\ e \in target'[g]
    <3>1. CASE g = f
      <4>1. e \in EditsIn(target[f])
        BY <1>1, <2>1, <2>2, <3>1 DEF gone, Carried
      <4>. QED
        BY <1>2, <1>3, <3>1, <4>1 DEF EditsIn
    <3>2. CASE g # f
      BY <1>2, <1>3, <2>1, <2>2, <3>2 DEF Carried
    <3>. QED
      BY <3>1, <3>2
  <2>4. \A d \in Edits : editor'[d].pc = "read" /\ editor'[d].file = g /\ ~editor'[d].whole =>
          e \in editor'[d].base
    BY <1>5, <2>2 DEF Carried
  <2>. HIDE DEF g
  <2>. QED
    BY <1>2, <1>3, <2>1, <2>2, <2>3, <2>4 DEF Carried
<1>. QED
  BY <1>3, <1>7, <1>8 DEF VerifyInv

(* What was swapped in stays so, with its original in the backup.          *)
LEMMA CrashKeeps ==
  ASSUME VerifyInv, Crash
  PROVE  VerifyInv'
<1>1. LocksOK' /\ Due' = {} /\ Hidden' = {} /\ Away' = {} /\ Shown' = {}
  BY CrashMoves DEF VerifyInv
<1>2. /\ editor' = [e \in Edits |-> IF editor[e].pc = "read" THEN NoEdit ELSE editor[e]]
      /\ disturbed' = disturbed \union {f \in Files : backup[f] # Absent}
      /\ UNCHANGED <<target, proposed, backup, user, source>>
  BY DEF Crash, tree
<1>3. TreeOK'
  BY <1>2 DEF VerifyInv, TreeOK
<1>4. BackedUp' /\ StagedIsThere'
  BY <1>1 DEF BackedUp, StagedIsThere
<1>5. SourceInPlace'
  BY <1>1, <1>2 DEF VerifyInv, FilesInv, BackedUp, SourceInPlace
<1>6. NoEdit \in EditorRow /\ NoEdit.pc = "none"
  BY DEF NoEdit, EditorRow, Content
<1>7. WritersOK'
  BY <1>2, <1>6 DEF VerifyInv, WritersOK
<1>8. UserWrote'
  BY <1>2 DEF VerifyInv, UserWrote
<1>9. \A e \in Edits : /\ Uncrossed(e)' => Uncrossed(e) /\ editor'[e].file = editor[e].file
                       /\ editor'[e].pc # "read"
  BY <1>2, <1>6 DEF Uncrossed
<1>10. EntriesCarry
  BY <1>1, <1>2 DEF EntriesCarry, Carried
<1>11. AllCarried'
  BY <1>2, <1>9, <1>10, EditsStay
<1>. QED
  BY <1>1, <1>3, <1>4, <1>5, <1>7, <1>8, <1>11 DEF VerifyInv, FilesInv

-----------------------------------------------------------------------------

(* At first nothing is staged.                                             *)
LEMMA InitVerify == Init => VerifyInv
<1>. SUFFICES ASSUME Init PROVE VerifyInv
  OBVIOUS
<1>1. LocksOK /\ Due = {} /\ Hidden = {} /\ Away = {} /\ Shown = {}
  BY InitLocks
<1>2. TreeOK
  BY DEF Init, TreeOK, Entry, Content
<1>3. NoEdit \in EditorRow /\ NoEdit.pc = "none" /\ NoUser \in UserRow /\ NoUser.pc = "none"
  BY DEF NoEdit, EditorRow, NoUser, UserRow, Content
<1>4. editor = [e \in Edits |-> NoEdit] /\ user = NoUser
  BY DEF Init
<1>5. WritersOK /\ AllCarried /\ UserWrote
  BY <1>3, <1>4 DEF WritersOK, AllCarried, Uncrossed, UserWrote
<1>6. FilesInv
  BY <1>1 DEF Init, FilesInv, BackedUp, StagedIsThere, SourceInPlace
<1>. QED
  BY <1>1, <1>2, <1>5, <1>6 DEF VerifyInv

(* Every action keeps the invariant.                                       *)
LEMMA NextVerify == VerifyInv /\ [Next]_vars => VerifyInv'
<1>. SUFFICES ASSUME VerifyInv, [Next]_vars PROVE VerifyInv'
  OBVIOUS
<1>1. ASSUME NEW c \in Calls, Work(c) PROVE VerifyInv'
  BY <1>1, AcquireKeeps, LookKeeps, HideKeeps, ShowKeeps, CheckKeeps, PutBackKeeps,
     ReinstateKeeps, ReleaseKeeps DEF Work
<1>2. ASSUME NEW e \in Edits, EditRead(e) \/ NewFile(e) \/ EditWrite(e) PROVE VerifyInv'
  BY <1>2, EditReadKeeps, NewFileKeeps, EditWriteKeeps
<1>3. ASSUME ConfirmRead \/ ConfirmWrite \/ ConfirmUnlink \/ Reject \/ Crash PROVE VerifyInv'
  BY <1>3, ConfirmReadKeeps, ConfirmWriteKeeps, ConfirmUnlinkKeeps, RejectKeeps, CrashKeeps
<1>4. CASE UNCHANGED vars
  <2>1. UNCHANGED <<tree, call, lock, history, editor, user, source, disturbed>>
    BY <1>4 DEF vars, history
  <2>2. LocksOK' /\ UNCHANGED <<Due, Hidden, Away, Shown>>
    BY <2>1, CallsStay DEF VerifyInv
  <2>. QED
    BY <2>1, <2>2, TreeStays, WritersStay DEF VerifyInv
<1>. QED
  BY <1>1, <1>2, <1>3, <1>4, BeginKeeps DEF Next

(* A lock is held by the call that lists it, once, and by no other, and every *)
(* variable stays in its type.                                             *)
THEOREM LocksAndTypes == Spec => []TypeOK
<1>1. Spec => []VerifyInv
  BY InitVerify, NextVerify, PTL DEF Spec
<1>2. VerifyInv => TypeOK
  BY WhatItMeans
<1>. QED
  BY <1>1, <1>2, PTL

(* However many verifications of whatever files, edits and decisions of the   *)
(* user run at once: unless a rename failed, the process died or the user    *)
(* acted under a lock, the original is at the target, or at the backup while *)
(* it is swapped out.                                                      *)
THEOREM SourceIsRestored == Spec => []OriginalKept
<1>1. Spec => []VerifyInv
  BY InitVerify, NextVerify, PTL DEF Spec
<1>2. VerifyInv => OriginalKept
  BY WhatItMeans
<1>. QED
  BY <1>1, <1>2, PTL

(* A staged edit that nothing crossed is in an entry of its file until it is  *)
(* rejected or rewritten.                                                  *)
THEOREM EditsAreKept == Spec => []StagedEditsKept
<1>1. Spec => []VerifyInv
  BY InitVerify, NextVerify, PTL DEF Spec
<1>2. VerifyInv => StagedEditsKept
  BY WhatItMeans
<1>. QED
  BY <1>1, <1>2, PTL
=============================================================================
