------------------------- MODULE SessionTreeProofs -------------------------
(***************************************************************************)
(* Sessions, projects and calls, as many as there are: what a conversation *)
(* shows, what a fork copies and what a digest is of.                      *)
(***************************************************************************)
EXTENDS SessionTree, FiniteSetTheorems, SequenceTheorems, WellFoundedInduction, TLAPS

-----------------------------------------------------------------------------
(* Numbers: what stands in for induction here, since every fact below is   *)
(* about one set.                                                          *)

(* A set of naturals that is not empty has a least element.                *)
LEMMA LeastNumber ==
  ASSUME NEW T, T \subseteq Nat, T # {}
  PROVE  \E n \in T : \A k \in T : n <= k
<1>. DEFINE U == {0..n : n \in T}
<1>1. U \subseteq FiniteSubsetsOf(Nat) /\ U # {}
  <2>1. ASSUME NEW n \in T PROVE 0..n \in FiniteSubsetsOf(Nat)
    <3>1. n \in Int /\ 0 \in Int /\ 0..n \subseteq Nat
      OBVIOUS
    <3>2. IsFiniteSet(0..n)
      BY <3>1, FS_Interval
    <3>. QED
      BY <3>1, <3>2 DEF FiniteSubsetsOf
  <2>. QED
    BY <2>1
<1>2. PICK x \in U : \A y \in U : <<y, x>> \notin StrictSubsetOrdering(Nat)
  <2>1. IsWellFoundedOn(StrictSubsetOrdering(Nat), FiniteSubsetsOf(Nat))
    BY FS_StrictSubsetOrderingWellFounded
  <2>. HIDE DEF U
  <2>. QED
    BY <1>1, <2>1, WFMin
<1>3. PICK n \in T : x = 0..n
  OBVIOUS
<1>4. ASSUME NEW k \in T, k < n PROVE FALSE
  <2>1. 0..k \in U /\ 0..k \subseteq 0..n /\ n \in 0..n /\ n \notin 0..k
    BY <1>4
  <2>2. <<0..k, 0..n>> \in StrictSubsetOrdering(Nat)
    BY <2>1 DEF StrictSubsetOrdering
  <2>. QED
    BY <1>2, <1>3, <2>1, <2>2
<1>. QED
  BY <1>4

(* One that is bounded has a greatest.                                     *)
LEMMA GreatestNumber ==
  ASSUME NEW N \in Nat, NEW T, T \subseteq 0..N, T # {}
  PROVE  MaxOf(T) \in T /\ \A k \in T : k <= MaxOf(T)
<1>. DEFINE U == {N - k : k \in T}
<1>1. U \subseteq Nat /\ U # {}
  OBVIOUS
<1>2. PICK u \in U : \A k \in U : u <= k
  BY <1>1, LeastNumber
<1>3. PICK n \in T : u = N - n
  OBVIOUS
<1>4. \A k \in T : k <= n
  BY <1>2, <1>3
<1>. QED
  BY <1>4 DEF MaxOf

-----------------------------------------------------------------------------
(* The walk of get_branch_history, over any messages and live sessions.    *)
Walk(m, l) ==
  CHOOSE w : w = [n \in 0..Len(m) |->
                    IF n = None \/ m[n].sess \notin l THEN << >>
                    ELSE Append(w[m[n].parent], n)]

(* The branches of the model are those walks.                              *)
LEMMA BranchIsWalk == BranchOf = Walk(messages, live)
  BY DEF BranchOf, Walk

(* Every message refers to an older one.                                   *)
IsTree(m) ==
  /\ Len(m) \in Nat /\ DOMAIN m = 1..Len(m)
  /\ \A n \in 1..Len(m) : m[n].parent \in 0..(n - 1)

(* Where a walk goes on from n.                                            *)
Onward(m, l, w, n) ==
  IF n = None \/ m[n].sess \notin l THEN << >> ELSE Append(w[m[n].parent], n)

(* There is such a walk, so each step of it is what its definition says.   *)
LEMMA WalkStep ==
  ASSUME NEW m, NEW l, IsTree(m), NEW n \in 0..Len(m)
  PROVE  Walk(m, l)[n] = Onward(m, l, Walk(m, l), n)
<1>. DEFINE N == Len(m)
            Fits(k, w) == /\ w = [i \in 0..k |-> w[i]]
                          /\ \A i \in 0..k : w[i] = Onward(m, l, w, i)
            T == {k \in 0..N : ~\E w : Fits(k, w)}
<1>1. N \in Nat /\ \A i \in 1..N : m[i].parent \in 0..(i - 1)
  BY DEF IsTree
<1>2. ASSUME NEW k \in T, \A j \in T : k <= j PROVE FALSE
  <2>1. CASE k = 0
    <3>. DEFINE w == [i \in 0..0 |-> << >>]
    <3>1. w = [i \in 0..0 |-> w[i]]
      OBVIOUS
    <3>2. \A i \in 0..0 : w[i] = Onward(m, l, w, i)
      BY DEF Onward, None
    <3>3. Fits(0, w)
      BY <3>1, <3>2
    <3>. QED
      BY <2>1, <3>3
  <2>2. CASE k # 0
    <3>1. k \in 1..N /\ k - 1 \in 0..N /\ k - 1 \notin T
      BY <1>1, <1>2, <2>2
    <3>2. PICK g : Fits(k - 1, g)
      BY <3>1
    <3>. DEFINE w == [i \in 0..k |-> IF i = k THEN Onward(m, l, g, k) ELSE g[i]]
    <3>3. w = [i \in 0..k |-> w[i]]
      OBVIOUS
    <3>4. ASSUME NEW i \in 0..k PROVE w[i] = Onward(m, l, w, i)
      <4>1. i = 0 \/ (m[i].parent \in 0..k /\ m[i].parent # k)
        <5>1. i # 0 => i \in 1..N
          BY <1>1, <3>1
        <5>. QED
          BY <1>1, <3>1, <5>1
      <4>2. i = 0 \/ w[m[i].parent] = g[m[i].parent]
        BY <4>1
      <4>3. Onward(m, l, w, i) = Onward(m, l, g, i)
        BY <4>2 DEF Onward, None
      <4>4. i # k => i \in 0..(k - 1)
        BY <3>1
      <4>5. i # k => g[i] = Onward(m, l, g, i)
        BY <3>2, <4>4
      <4>. QED
        BY <4>3, <4>5
    <3>5. Fits(k, w)
      BY <3>3, <3>4
    <3>. QED
      BY <3>5
  <2>. QED
    BY <2>1, <2>2
<1>3. T = {}
  <2>1. T \subseteq Nat
    BY <1>1
  <2>. HIDE DEF T
  <2>. QED
    BY <1>2, <2>1, LeastNumber
<1>4. PICK w : Fits(N, w)
  BY <1>1, <1>3
<1>5. w = [i \in 0..N |-> Onward(m, l, w, i)]
  BY <1>4
<1>6. Walk(m, l) = [i \in 0..N |-> Onward(m, l, Walk(m, l), i)]
  BY <1>5 DEF Walk, Onward
<1>. QED
  BY <1>6

(* Two walks that meet the same messages from S are the same there.        *)
LEMMA WalksAgree ==
  ASSUME NEW m, NEW l, NEW mm, NEW ll, IsTree(m), IsTree(mm),
         NEW S, S \subseteq (0..Len(m)) \cap (0..Len(mm)),
         \A n \in S \ {None} :
           /\ mm[n] = m[n] /\ m[n].parent \in S
           /\ mm[n].sess \in ll <=> m[n].sess \in l
  PROVE  \A n \in S : Walk(mm, ll)[n] = Walk(m, l)[n]
<1>. DEFINE T == {n \in S : Walk(mm, ll)[n] # Walk(m, l)[n]}
<1>1. ASSUME NEW n \in T, \A k \in T : n <= k PROVE FALSE
  <2>1. n \in 0..Len(m) /\ n \in 0..Len(mm)
    OBVIOUS
  <2>2. /\ Walk(m, l)[n] = Onward(m, l, Walk(m, l), n)
        /\ Walk(mm, ll)[n] = Onward(mm, ll, Walk(mm, ll), n)
    BY <2>1, WalkStep
  <2>3. n = None \/ (m[n].parent \in S /\ m[n].parent \in 0..(n - 1))
    BY <2>1 DEF IsTree, None
  <2>4. n = None \/ Walk(mm, ll)[m[n].parent] = Walk(m, l)[m[n].parent]
    BY <1>1, <2>1, <2>3
  <2>5. n = None \/ (mm[n] = m[n] /\ (mm[n].sess \in ll <=> m[n].sess \in l))
    OBVIOUS
  <2>6. Onward(mm, ll, Walk(mm, ll), n) = Onward(m, l, Walk(m, l), n)
    BY <2>4, <2>5 DEF Onward
  <2>. QED
    BY <2>2, <2>6
<1>2. T \subseteq Nat
  <2>1. Len(m) \in Nat
    BY DEF IsTree
  <2>2. T \subseteq 0..Len(m)
    OBVIOUS
  <2>. QED
    BY <2>1, <2>2
<1>3. T = {}
  <2>. HIDE DEF T
  <2>. QED
    BY <1>1, <1>2, LeastNumber
<1>. QED
  BY <1>3

(* A walk is a sequence of messages.  If parents are of the session of     *)
(* their children, all of it is of the session it begins in.               *)
LEMMA WalkStaysInside ==
  ASSUME NEW m, NEW l, IsTree(m),
         \A n \in 1..Len(m) : m[n].parent # None => m[m[n].parent].sess = m[n].sess
  PROVE  \A n \in 0..Len(m) :
           /\ Walk(m, l)[n] \in Seq(1..Len(m))
           /\ \A k \in ToSet(Walk(m, l)[n]) : k <= n /\ m[k].sess = m[n].sess
<1>. DEFINE W == Walk(m, l)
            T == {n \in 0..Len(m) :
                    ~(/\ W[n] \in Seq(1..Len(m))
                      /\ \A k \in ToSet(W[n]) : k <= n /\ m[k].sess = m[n].sess)}
<1>1. ASSUME NEW n \in T, \A k \in T : n <= k PROVE FALSE
  <2>1. W[n] = Onward(m, l, W, n)
    BY WalkStep
  <2>2. CASE W[n] = << >>
    <3>1. W[n] \in Seq(1..Len(m)) /\ ToSet(W[n]) = {}
      BY <2>2 DEF ToSet
    <3>. QED
      BY <3>1
  <2>3. CASE W[n] # << >>
    <3>. DEFINE p == m[n].parent
    <3>1. n # None /\ W[n] = Append(W[p], n)
      BY <2>1, <2>3 DEF Onward
    <3>2. n \in 1..Len(m) /\ p \in 0..Len(m) /\ p < n
      BY <3>1 DEF IsTree, None
    <3>3. /\ W[p] \in Seq(1..Len(m))
          /\ \A k \in ToSet(W[p]) : k <= p /\ m[k].sess = m[p].sess
      BY <1>1, <3>2
    <3>4. p = None => W[p] = << >>
      BY <3>2, WalkStep DEF Onward
    <3>5. p = None => ToSet(W[p]) = {}
      BY <3>4 DEF ToSet
    <3>6. \A k \in ToSet(W[p]) : k <= n /\ m[k].sess = m[n].sess
      <4>1. \A k \in ToSet(W[p]) : k \in 1..Len(m)
        BY <3>3 DEF ToSet
      <4>. QED
        BY <3>2, <3>3, <3>5, <4>1
    <3>7. W[n] \in Seq(1..Len(m)) /\ ToSet(W[n]) = ToSet(W[p]) \cup {n}
      <4>. HIDE DEF W, p
      <4>1. Append(W[p], n) \in Seq(1..Len(m))
        BY <3>2, <3>3
      <4>2. /\ DOMAIN Append(W[p], n) = 1..(Len(W[p]) + 1) /\ DOMAIN W[p] = 1..Len(W[p])
            /\ Len(W[p]) \in Nat
            /\ Append(W[p], n)[Len(W[p]) + 1] = n
            /\ \A i \in 1..Len(W[p]) : Append(W[p], n)[i] = W[p][i]
        BY <3>2, <3>3
      <4>3. ToSet(Append(W[p], n)) = ToSet(W[p]) \cup {n}
        BY <4>2 DEF ToSet
      <4>. QED
        BY <3>1, <4>1, <4>3
    <3>. QED
      BY <3>6, <3>7
  <2>. QED
    BY <2>2, <2>3
<1>2. T \subseteq Nat
  <2>1. Len(m) \in Nat
    BY DEF IsTree
  <2>2. T \subseteq 0..Len(m)
    OBVIOUS
  <2>. QED
    BY <2>1, <2>2
<1>3. T = {}
  <2>. HIDE DEF T
  <2>. QED
    BY <1>1, <1>2, LeastNumber
<1>. QED
  BY <1>3

-----------------------------------------------------------------------------
(* The inductive invariant                                                 *)

OwnMessage(n, s) == n = None \/ (n \in DOMAIN messages /\ messages[n].sess = s)

(* What is written in a session is of its project, and its leaf is its own. *)
Homes ==
  /\ \A n \in DOMAIN messages : messages[n].text.home = project[messages[n].sess]
  /\ \A s \in live : project[s] # NoProject
  /\ \A s \in Sessions : OwnMessage(leaf[s], s)

(* What a call holds between two transactions.                             *)
CallOK(c) ==
  LET row == call[c] IN
  /\ row.at = "idle" <=> row.op = "none"
  /\ row.at \in {"running", "count"} => row.op = "chat"
  /\ row.at \in {"read", "insert"} => row.op \in {"chat", "fork"} /\ row.todo # << >>
  /\ row.at = "set" => row.op = "branch"
  /\ IF row.op = "none" THEN row.sess = None ELSE row.sess \in Sessions
  /\ row.op \in {"chat", "fork"} =>
       /\ row.home = project[row.sess] /\ row.home # NoProject
       /\ \A i \in DOMAIN row.todo : row.todo[i].home = row.home
  /\ row.at \in {"insert", "set"} => OwnMessage(row.parent, row.sess)
  /\ row.handoff = "due" => row.op = "chat"
  /\ compaction[c].at # "none" => row.op = "chat" /\ row.at = "over"

(* A fork that nobody joins hangs each copy under the one before.          *)
Alone(c) == \A d \in Calls \ {c} : call[d].sess # call[c].sess
CopyOK(c) ==
  call[c].op = "fork" /\ call[c].sess \in live /\ Alone(c) =>
    /\ TextsOf(BranchOf[leaf[call[c].sess]]) = call[c].done
    /\ call[c].at = "insert" => call[c].parent = leaf[call[c].sess]

(* A digest, written or still to be written, is of all up to its end.      *)
UpTo(s, n) == {k \in Rows(s) : k <= n}
DigestOK ==
  /\ \A c \in Calls :
       /\ compaction[c].through <= Len(messages)
       /\ compaction[c].at = "summarise" /\ call[c].sess \in live =>
            compaction[c].of = UpTo(call[c].sess, compaction[c].through)
  /\ \A s \in Sessions : summary[s].kind = "digest" =>
       project[s] # NoProject /\ (s \in live => summary[s].of = UpTo(s, through[s]))

CallsOK == \A c \in Calls : CallOK(c)
CopiesOK == \A c \in Calls : CopyOK(c)

SessionInv == TypeOK /\ Homes /\ CallsOK /\ LinearHistory /\ CopiesOK /\ DigestOK

Core == TypeOK /\ Homes /\ CallsOK

(* What nothing ever changes: the messages there are, and whose a session is. *)
Grows ==
  /\ \A n \in DOMAIN messages : n \in DOMAIN messages' /\ messages'[n] = messages[n]
  /\ \A s \in Sessions : project[s] # NoProject => project'[s] = project[s]

(* The messages are a tree, and its branches stay in one session.          *)
LEMMA MessagesAreTree ==
  ASSUME TypeOK
  PROVE  /\ IsTree(messages)
         /\ \A n \in 1..Len(messages) :
              messages[n].parent # None => messages[messages[n].parent].sess = messages[n].sess
<1>1. Len(messages) \in Nat /\ DOMAIN messages = 1..Len(messages)
  BY DEF TypeOK
<1>2. \A n \in 1..Len(messages) : messages[n] \in Message /\ messages[n].parent < n
  BY <1>1 DEF TypeOK
<1>3. \A n \in 1..Len(messages) : messages[n].parent \in 0..(n - 1)
  BY <1>1, <1>2 DEF Message
<1>. QED
  BY <1>1, <1>3 DEF IsTree, TypeOK

(* A branch, its texts, and the session it is of.                          *)
LEMMA BranchIsInside ==
  ASSUME TypeOK, NEW n \in 0..Len(messages)
  PROVE  /\ BranchOf[n] \in Seq(1..Len(messages))
         /\ \A k \in ToSet(BranchOf[n]) :
              k \in DOMAIN messages /\ k <= n /\ messages[k].sess = messages[n].sess
         /\ TextsOf(BranchOf[n]) \in Seq(Texts)
<1>1. /\ BranchOf[n] \in Seq(1..Len(messages))
      /\ \A k \in ToSet(BranchOf[n]) : k <= n /\ messages[k].sess = messages[n].sess
  BY MessagesAreTree, WalkStaysInside, BranchIsWalk
<1>2. DOMAIN messages = 1..Len(messages) /\ messages \in Seq(Message)
  BY DEF TypeOK
<1>3. \A k \in ToSet(BranchOf[n]) : k \in DOMAIN messages
  BY <1>1, <1>2 DEF ToSet
<1>4. TextsOf(BranchOf[n]) \in Seq(Texts)
  <2>. DEFINE b == BranchOf[n]
  <2>. HIDE DEF b
  <2>1. b \in Seq(1..Len(messages))
    BY <1>1 DEF b
  <2>2. Len(b) \in Nat /\ DOMAIN b = 1..Len(b)
    BY <2>1
  <2>3. \A i \in 1..Len(b) : messages[b[i]].text \in Texts
    <3>1. \A i \in 1..Len(b) : b[i] \in 1..Len(messages)
      BY <2>1, <2>2
    <3>2. \A k \in 1..Len(messages) : messages[k] \in Message
      BY <1>2
    <3>. QED
      BY <3>1, <3>2 DEF Message
  <2>4. TextsOf(b) = [i \in 1..Len(b) |-> messages[b[i]].text]
    BY <2>2 DEF TextsOf
  <2>5. TextsOf(b) \in [1..Len(b) -> Texts]
    BY <2>3, <2>4
  <2>. QED
    BY <2>2, <2>5 DEF b
<1>. QED
  BY <1>1, <1>3, <1>4

(* The branches of a session change with that session only.                *)
LEMMA BranchKept ==
  ASSUME TypeOK, TypeOK', Grows, NEW s \in Sessions, s \in live <=> s \in live'
  PROVE  \A n \in DOMAIN messages \cup {None} :
           n = None \/ messages[n].sess = s => BranchOf'[n] = BranchOf[n]
<1>. DEFINE S == {None} \cup {n \in DOMAIN messages : messages[n].sess = s}
<1>1. IsTree(messages) /\ IsTree(messages)'
  BY MessagesAreTree, PTL
<1>2. IsTree(messages')
  BY <1>1 DEF IsTree
<1>3. S \subseteq (0..Len(messages)) \cap (0..Len(messages'))
  <2>1. /\ Len(messages) \in Nat /\ DOMAIN messages = 1..Len(messages)
        /\ Len(messages') \in Nat /\ DOMAIN messages' = 1..Len(messages')
    BY <1>1, <1>2 DEF IsTree
  <2>. QED
    BY <2>1 DEF Grows, None
<1>4. ASSUME NEW n \in S \ {None}
      PROVE  /\ messages'[n] = messages[n] /\ messages[n].parent \in S
             /\ messages'[n].sess \in live' <=> messages[n].sess \in live
  <2>1. n \in DOMAIN messages /\ messages[n].sess = s
    BY DEF None
  <2>2. messages'[n] = messages[n]
    BY <2>1 DEF Grows
  <2>3. messages[n].parent \in {None} \cup DOMAIN messages
    BY <1>1, <2>1 DEF IsTree, None
  <2>4. messages[n].parent \in S
    BY <2>1, <2>3 DEF TypeOK
  <2>. QED
    BY <2>1, <2>2, <2>4
<1>5. \A n \in S : Walk(messages', live')[n] = Walk(messages, live)[n]
  <2>1. \A n \in S \ {None} :
           /\ messages'[n] = messages[n] /\ messages[n].parent \in S
           /\ messages'[n].sess \in live' <=> messages[n].sess \in live
    BY <1>4
  <2>2. IsTree(messages)
    BY <1>1
  <2>. HIDE DEF S
  <2>. QED
    BY <1>2, <1>3, <2>1, <2>2, WalksAgree
<1>6. BranchOf' = Walk(messages', live') /\ BranchOf = Walk(messages, live)
  BY BranchIsWalk DEF BranchOf, Walk
<1>. QED
  BY <1>5, <1>6

(* What a call holds stays right while others work.                        *)
LEMMA CallStays ==
  ASSUME Core, TypeOK', Grows, NEW c \in Calls, call'[c] = call[c],
         compaction'[c].at \in {"none", compaction[c].at}
  PROVE  CallOK(c)'
<1>1. CallOK(c)
  BY DEF Core, CallsOK
<1>2. call[c].op \in {"chat", "fork"} => project'[call[c].sess] = project[call[c].sess]
  BY <1>1 DEF CallOK, Grows
<1>3. OwnMessage(call[c].parent, call[c].sess) => OwnMessage(call[c].parent, call[c].sess)'
  BY DEF OwnMessage, Grows
<1>. QED
  BY <1>1, <1>2, <1>3 DEF CallOK, OwnMessage

-----------------------------------------------------------------------------
(* Types, homes and calls are kept by every step                            *)

TreeTypes ==
  /\ messages \in Seq(Message)
  /\ \A n \in DOMAIN messages :
       /\ messages[n].parent < n
       /\ messages[n].parent # None =>
            messages[messages[n].parent].sess = messages[n].sess
  /\ live \subseteq Sessions /\ project \in [Sessions -> Projects \cup {NoProject}]
  /\ leaf \in [Sessions -> 0..Len(messages)] /\ through \in [Sessions -> 0..Len(messages)]
  /\ summary \in [Sessions -> [kind : {"none", "handoff", "digest"}, of : SUBSET Nat]]
  /\ raced \subseteq Sessions /\ branched \subseteq Sessions
RowTypes ==
  /\ call \in [Calls -> Call] /\ compaction \in [Calls -> Compaction]
  /\ faults \in 0..MaxFaults

(* The two parts of TypeOK.                                                *)
LEMMA TypeParts == (TypeOK <=> TreeTypes /\ RowTypes) /\ (TypeOK' <=> TreeTypes' /\ RowTypes')
  BY DEF TypeOK, TreeTypes, RowTypes

(* The tree is as it was.                                                  *)
LEMMA TreeUnchanged ==
  ASSUME Core, UNCHANGED <<messages, live, project, leaf>>
  PROVE  Homes' /\ Grows
  BY DEF Core, Homes, OwnMessage, Grows

(* A failing transaction is one of MaxFaults.                              *)
LEMMA FaultTypes ==
  ASSUME faults \in 0..MaxFaults, Fault \/ UNCHANGED faults
  PROVE  faults' \in 0..MaxFaults
  BY SessionAssumptions DEF Fault

(* A session that is new has no messages and no leaf.                      *)
LEMMA FreshIsEmpty ==
  ASSUME Core, NEW s \in Sessions, Fresh(s)
  PROVE  /\ \A n \in DOMAIN messages : messages[n].sess # s
         /\ leaf[s] = None /\ s \notin live
         /\ \A c \in Calls : call[c].op \in {"chat", "fork"} => call[c].sess # s
<1>1. ASSUME NEW n \in DOMAIN messages, messages[n].sess = s PROVE FALSE
  <2>1. messages[n] \in Message
    BY DEF Core, TypeOK
  <2>2. messages[n].text.home \in Projects
    BY <2>1 DEF Message, Texts
  <2>. QED
    BY <1>1, <2>2, SessionAssumptions DEF Core, Homes, Fresh
<1>2. leaf[s] = None
  BY <1>1 DEF Core, Homes, OwnMessage
<1>3. \A c \in Calls : call[c].op \in {"chat", "fork"} => call[c].sess # s
  BY DEF Core, CallsOK, CallOK, Fresh
<1>. QED
  BY <1>1, <1>2, <1>3 DEF Fresh

(* A session is created, with or without its row.                          *)
LEMMA CreateKeeps ==
  ASSUME Core, NEW s \in Sessions, NEW p \in Projects, CreateSession(s, p),
         UNCHANGED <<messages, leaf, summary, through, raced, branched>>
  PROVE  TreeTypes' /\ Homes' /\ Grows /\ faults' \in 0..MaxFaults
<1>1. Fresh(s) /\ project' = [project EXCEPT ![s] = p]
  BY DEF CreateSession
<1>2. live' \in {live, live \cup {s}}
  BY DEF CreateSession
<1>3. \A n \in DOMAIN messages : messages[n].sess # s /\ messages[n].sess \in Sessions
  <2>1. \A n \in DOMAIN messages : messages[n] \in Message
    BY DEF Core, TypeOK
  <2>2. \A n \in DOMAIN messages : messages[n].sess # s
    BY <1>1, FreshIsEmpty
  <2>. QED
    BY <2>1, <2>2 DEF Message
<1>4. TypeOK /\ Homes
  BY DEF Core
<1>5. \A r \in Sessions : r # s => project'[r] = project[r]
  BY <1>1, <1>4 DEF TypeOK
<1>6. project'[s] = p /\ p # NoProject
  BY <1>1, <1>4, SessionAssumptions DEF TypeOK
<1>7. TreeTypes'
  BY <1>1, <1>2, <1>4 DEF TypeOK, TreeTypes
<1>8. Homes'
  <2>1. \A n \in DOMAIN messages : messages[n].text.home = project'[messages[n].sess]
    BY <1>3, <1>4, <1>5 DEF Homes
  <2>2. \A r \in live' : project'[r] # NoProject
    BY <1>2, <1>4, <1>5, <1>6 DEF Homes, TypeOK
  <2>3. \A r \in Sessions : OwnMessage(leaf[r], r)'
    BY <1>4 DEF Homes, OwnMessage
  <2>. QED
    BY <2>1, <2>2, <2>3 DEF Homes
<1>9. Grows
  BY <1>1, <1>5 DEF Grows, Fresh
<1>10. faults' \in 0..MaxFaults
  BY <1>4, FaultTypes DEF CreateSession, TypeOK
<1>. QED
  BY <1>7, <1>8, <1>9, <1>10

(* A message is inserted under the parent its call has.                    *)
LEMMA InsertKeeps ==
  ASSUME Core, NEW c \in Calls, call[c].at = "insert", Inserted(c, Head(call[c].todo))
  PROVE  /\ TreeTypes' /\ Homes' /\ Grows /\ faults' \in 0..MaxFaults
         /\ call[c].sess \in live /\ call[c].sess \in Sessions /\ live' = live
         /\ DOMAIN messages' = DOMAIN messages \cup {Len(messages) + 1}
         /\ Len(messages) + 1 \notin DOMAIN messages
         /\ Len(messages') = Len(messages) + 1
         /\ messages'[Len(messages) + 1] =
              [sess |-> call[c].sess, parent |-> call[c].parent, text |-> Head(call[c].todo)]
         /\ call[c].parent \in 0..Len(messages)
         /\ leaf' = [leaf EXCEPT ![call[c].sess] = Len(messages) + 1]
<1>. DEFINE s == call[c].sess
            text == Head(call[c].todo)
            N == Len(messages)
            new == [sess |-> s, parent |-> call[c].parent, text |-> text]
<1>1. /\ s \in live /\ live' = live /\ project' = project
      /\ messages' = Append(messages, new)
      /\ leaf' = [leaf EXCEPT ![s] = N + 1]
      /\ raced' \in {raced, raced \cup {s}}
      /\ UNCHANGED <<summary, through, branched, faults>>
  BY DEF Inserted, NewLeaf
<1>2. /\ TypeOK /\ Homes /\ CallOK(c)
      /\ N \in Nat /\ DOMAIN messages = 1..N /\ messages \in Seq(Message)
      /\ s \in Sessions /\ call[c] \in Call
  BY <1>1 DEF Core, CallsOK, TypeOK
<1>3. /\ call[c].todo \in Seq(Texts) /\ call[c].todo # << >>
      /\ \A i \in DOMAIN call[c].todo : call[c].todo[i].home = project[s]
  BY <1>2 DEF CallOK, Call
<1>4. text \in Texts /\ text.home = project[s]
  <2>1. /\ text = call[c].todo[1] /\ 1 \in DOMAIN call[c].todo
    BY <1>3
  <2>. QED
    BY <1>3, <2>1
<1>5. /\ OwnMessage(call[c].parent, s)
      /\ call[c].parent \in 0..N
  <2>1. OwnMessage(call[c].parent, s)
    BY <1>2 DEF CallOK
  <2>. QED
    BY <1>2, <2>1 DEF OwnMessage, None
<1>6. new \in Message
  <2>1. call[c].parent \in Nat
    BY <1>2, <1>5
  <2>. QED
    BY <1>2, <1>4, <2>1 DEF Message
<1>7. /\ messages' \in Seq(Message) /\ Len(messages') = N + 1
      /\ DOMAIN messages' = 1..(N + 1)
      /\ messages'[N + 1] = new
      /\ \A n \in 1..N : messages'[n] = messages[n]
  <2>. HIDE DEF new
  <2>. QED
    BY <1>1, <1>2, <1>6
<1>8. ASSUME NEW n \in 1..(N + 1)
      PROVE  /\ messages'[n].parent < n
             /\ messages'[n].parent # None =>
                  messages'[messages'[n].parent].sess = messages'[n].sess
  <2>1. CASE n = N + 1
    <3>1. messages'[n].parent = call[c].parent /\ messages'[n].sess = s
      BY <1>7, <2>1
    <3>2. call[c].parent # None => call[c].parent \in 1..N
                                   /\ messages'[call[c].parent].sess = s
      BY <1>2, <1>5, <1>7 DEF OwnMessage
    <3>. QED
      BY <1>2, <1>5, <2>1, <3>1, <3>2
  <2>2. CASE n # N + 1
    <3>1. n \in 1..N /\ messages'[n] = messages[n] /\ messages[n] \in Message
      BY <1>2, <1>7, <2>2
    <3>2. /\ messages[n].parent < n
          /\ messages[n].parent # None =>
               messages[messages[n].parent].sess = messages[n].sess
      BY <1>2, <3>1 DEF TypeOK
    <3>3. messages[n].parent # None => messages[n].parent \in 1..N
      BY <1>2, <3>1, <3>2 DEF Message, None
    <3>. QED
      BY <1>7, <3>1, <3>2, <3>3
  <2>. QED
    BY <2>1, <2>2
<1>9. /\ leaf' \in [Sessions -> 0..(N + 1)] /\ through' \in [Sessions -> 0..(N + 1)]
      /\ leaf'[s] = N + 1 /\ \A r \in Sessions \ {s} : leaf'[r] = leaf[r]
  <2>1. 0..N \subseteq 0..(N + 1) /\ N + 1 \in 0..(N + 1)
    BY <1>2
  <2>2. leaf \in [Sessions -> 0..N] /\ through \in [Sessions -> 0..N]
    BY <1>2 DEF TypeOK
  <2>. QED
    BY <1>1, <1>2, <2>1, <2>2
<1>10. TreeTypes'
  <2>1. /\ live' \subseteq Sessions /\ project' \in [Sessions -> Projects \cup {NoProject}]
        /\ summary' \in [Sessions -> [kind : {"none", "handoff", "digest"}, of : SUBSET Nat]]
        /\ raced' \subseteq Sessions /\ branched' \subseteq Sessions
    BY <1>1, <1>2 DEF TypeOK
  <2>. QED
    BY <1>7, <1>8, <1>9, <2>1 DEF TreeTypes
<1>11. Homes'
  <2>1. ASSUME NEW n \in 1..(N + 1)
        PROVE  messages'[n].text.home = project[messages'[n].sess]
    BY <1>2, <1>4, <1>7 DEF Homes
  <2>2. ASSUME NEW r \in Sessions PROVE OwnMessage(leaf[r], r)'
    <3>1. CASE r = s
      BY <1>2, <1>7, <1>9, <3>1 DEF OwnMessage
    <3>2. CASE r # s
      BY <1>2, <1>7, <1>9, <3>2 DEF OwnMessage, Homes
    <3>. QED
      BY <3>1, <3>2
  <2>. QED
    BY <1>1, <1>2, <1>7, <2>1, <2>2 DEF Homes
<1>12. Grows
  BY <1>1, <1>2, <1>7 DEF Grows
<1>13. N + 1 \notin 1..N /\ 1..(N + 1) = 1..N \cup {N + 1}
  BY <1>2
<1>. QED
  BY <1>1, <1>2, <1>5, <1>7, <1>10, <1>11, <1>12, <1>13 DEF TypeOK

(* What a step of call c does to types, homes and calls.                   *)
Sound(c) ==
  /\ TreeTypes' /\ RowTypes' /\ Homes' /\ Grows /\ CallOK(c)'
  /\ \A d \in Calls \ {c} : call'[d] = call[d] /\ compaction'[d] = compaction[d]

(* A call that has not begun is typed.                                     *)
LEMMA IdleTyped == Idle \in Call
<1>1. << >> \in Seq(Texts)
  OBVIOUS
<1>2. Idle = [op |-> "none", at |-> "idle", sess |-> None, home |-> NoProject,
              parent |-> 0, todo |-> << >>, done |-> << >>, handoff |-> "none"]
  BY DEF Idle, None
<1>. QED
  BY <1>1, <1>2 DEF Call

(* The row of one call is replaced.                                        *)
LEMMA RowReplaced ==
  ASSUME Core, NEW c \in Calls, NEW row \in Call, call' = [call EXCEPT ![c] = row],
         UNCHANGED compaction, faults' \in 0..MaxFaults
  PROVE  /\ RowTypes' /\ call'[c] = row
         /\ \A d \in Calls \ {c} : call'[d] = call[d] /\ compaction'[d] = compaction[d]
  BY DEF Core, TypeOK, RowTypes

(* The leaf is read: the parent is a message of the session.               *)
LEMMA ReadLeafSound ==
  ASSUME Core, NEW c \in Calls, ReadLeaf(c)
  PROVE  Sound(c)
<1>. DEFINE s == call[c].sess
            parent == IF s \in live THEN leaf[s] ELSE None
            row == [call[c] EXCEPT !.at = "insert", !.parent = parent]
<1>1. /\ TypeOK /\ CallOK(c) /\ call[c] \in Call /\ s \in Sessions /\ call[c].at = "read"
      /\ UNCHANGED <<tree, compaction, faults>>
  BY DEF Core, CallsOK, CallOK, TypeOK, ReadLeaf
<1>2. parent \in Nat /\ OwnMessage(parent, s)
  <2>1. leaf[s] \in Nat /\ OwnMessage(leaf[s], s)
    BY <1>1 DEF Core, Homes, TypeOK
  <2>. QED
    BY <2>1 DEF OwnMessage, None
<1>3. row \in Call
  BY <1>1, <1>2 DEF Call
<1>4. call' = [call EXCEPT ![c] = row]
  BY <1>1 DEF ReadLeaf, TypeOK
<1>5. /\ row.at = "insert" /\ row.parent = parent /\ row.op = call[c].op /\ row.sess = s
      /\ row.home = call[c].home /\ row.todo = call[c].todo /\ row.handoff = call[c].handoff
  BY <1>1 DEF Call
<1>. HIDE DEF row, parent
<1>6. /\ RowTypes' /\ call'[c] = row
      /\ \A d \in Calls \ {c} : call'[d] = call[d] /\ compaction'[d] = compaction[d]
  BY <1>1, <1>3, <1>4, RowReplaced DEF TypeOK
<1>7. TreeTypes' /\ Homes' /\ Grows
  BY <1>1, TypeParts, TreeUnchanged DEF tree, TreeTypes
<1>8. CallOK(c)'
  BY <1>1, <1>2, <1>5, <1>6 DEF CallOK, OwnMessage, tree
<1>. QED
  BY <1>6, <1>7, <1>8 DEF Sound

(* A run of a session, there already or created for it.                    *)
LEMMA ChatSound ==
  ASSUME Core, NEW c \in Calls, NEW s \in Sessions, NEW p \in Projects, Chat(c, s, p)
  PROVE  Sound(c)
<1>. DEFINE row == [Idle EXCEPT !.op = "chat", !.at = "running", !.sess = s, !.home = p]
<1>1. /\ TypeOK /\ Homes /\ CallOK(c) /\ call[c].at = "idle"
      /\ call' = [call EXCEPT ![c] = row]
      /\ UNCHANGED <<messages, leaf, summary, through, compaction, raced, branched>>
  BY DEF Core, CallsOK, Chat
<1>2. row \in Call
  <2>1. Idle \in Call
    BY IdleTyped
  <2>. QED
    BY <2>1 DEF Call
<1>3. /\ row.at = "running" /\ row.op = "chat" /\ row.sess = s /\ row.home = p
      /\ row.todo = << >> /\ row.handoff = "none"
  BY DEF Idle
<1>. HIDE DEF row
<1>4. TreeTypes' /\ Homes' /\ Grows /\ faults' \in 0..MaxFaults /\ project'[s] = p
  <2>1. CASE Authorized(s, p) /\ UNCHANGED <<live, project, faults>>
    BY <1>1, <2>1, TypeParts, TreeUnchanged DEF TreeTypes, Authorized, RowTypes
  <2>2. CASE CreateSession(s, p)
    <3>1. TreeTypes' /\ Homes' /\ Grows /\ faults' \in 0..MaxFaults
      BY <1>1, <2>2, CreateKeeps
    <3>2. project'[s] = p
      BY <1>1, <2>2 DEF CreateSession, TypeOK
    <3>. QED
      BY <3>1, <3>2
  <2>. QED
    BY <2>1, <2>2 DEF Chat
<1>5. /\ RowTypes' /\ call'[c] = row
      /\ \A d \in Calls \ {c} : call'[d] = call[d] /\ compaction'[d] = compaction[d]
  BY <1>1, <1>2, <1>4, RowReplaced
<1>6. CallOK(c)'
  BY <1>1, <1>3, <1>4, <1>5, SessionAssumptions DEF CallOK
<1>. QED
  BY <1>4, <1>5, <1>6 DEF Sound

(* The worker answers: two texts of the caller's own project.              *)
LEMMA WorkerAnswersSound ==
  ASSUME Core, NEW c \in Calls, WorkerAnswers(c)
  PROVE  Sound(c)
<1>1. /\ TypeOK /\ Homes /\ CallOK(c) /\ call[c] \in Call /\ call[c].op = "chat"
      /\ call[c].at = "running" /\ call[c].sess \in Sessions
      /\ UNCHANGED <<messages, live, project, leaf, through, compaction, raced, branched, faults>>
  BY DEF Core, CallsOK, CallOK, TypeOK, WorkerAnswers
<1>. DEFINE two == <<Text("user", c, call[c].home), Text("assistant", c, call[c].home)>>
<1>2. PICK handoff \in {"due", "saved", "lost"} :
        /\ call' = [call EXCEPT ![c].at = "read", ![c].handoff = handoff, ![c].todo = two]
        /\ summary' = IF handoff = "saved" /\ call[c].sess \in live
                      THEN [summary EXCEPT ![call[c].sess] = [kind |-> "handoff", of |-> {}]]
                      ELSE summary
  BY DEF WorkerAnswers
<1>. DEFINE row == [call[c] EXCEPT !.at = "read", !.handoff = handoff, !.todo = two]
<1>3. call[c].home \in Projects
  BY <1>1 DEF CallOK, Call
<1>4. two \in Seq(Texts) /\ two # << >> /\ \A i \in DOMAIN two : two[i].home = call[c].home
  BY <1>3 DEF Text, Texts
<1>5. row \in Call
  BY <1>1, <1>4 DEF Call
<1>6. /\ row.at = "read" /\ row.op = "chat" /\ row.sess = call[c].sess
      /\ row.home = call[c].home /\ row.todo = two
  BY <1>1 DEF Call
<1>7. call' = [call EXCEPT ![c] = row]
  BY <1>1, <1>2 DEF TypeOK
<1>. HIDE DEF row, two
<1>8. /\ RowTypes' /\ call'[c] = row
      /\ \A d \in Calls \ {c} : call'[d] = call[d] /\ compaction'[d] = compaction[d]
  BY <1>1, <1>5, <1>7, RowReplaced DEF TypeOK
<1>9. summary' \in [Sessions -> [kind : {"none", "handoff", "digest"}, of : SUBSET Nat]]
  BY <1>1, <1>2 DEF TypeOK
<1>10. TreeTypes' /\ Homes' /\ Grows
  BY <1>1, <1>9, TypeParts, TreeUnchanged DEF TreeTypes
<1>11. CallOK(c)'
  BY <1>1, <1>4, <1>6, <1>8 DEF CallOK
<1>. QED
  BY <1>8, <1>10, <1>11 DEF Sound

(* The handoff summary is written.                                         *)
LEMMA SaveHandoffSound ==
  ASSUME Core, NEW c \in Calls, SaveHandoff(c)
  PROVE  Sound(c)
<1>. DEFINE row == [call[c] EXCEPT !.handoff = "saved"]
<1>1. /\ TypeOK /\ Homes /\ CallOK(c) /\ call[c] \in Call /\ call[c].op = "chat"
      /\ call[c].sess \in Sessions
      /\ UNCHANGED <<messages, live, project, leaf, through, compaction, raced, branched, faults>>
  BY DEF Core, CallsOK, CallOK, TypeOK, SaveHandoff
<1>2. row \in Call
  BY <1>1 DEF Call
<1>3. /\ row.at = call[c].at /\ row.op = call[c].op /\ row.sess = call[c].sess
      /\ row.parent = call[c].parent
      /\ row.home = call[c].home /\ row.todo = call[c].todo /\ row.handoff = "saved"
  BY <1>1 DEF Call
<1>4. call' = [call EXCEPT ![c] = row]
  BY <1>1 DEF TypeOK, SaveHandoff
<1>. HIDE DEF row
<1>5. /\ RowTypes' /\ call'[c] = row
      /\ \A d \in Calls \ {c} : call'[d] = call[d] /\ compaction'[d] = compaction[d]
  BY <1>1, <1>2, <1>4, RowReplaced DEF TypeOK
<1>6. summary' \in [Sessions -> [kind : {"none", "handoff", "digest"}, of : SUBSET Nat]]
  BY <1>1 DEF TypeOK, SaveHandoff
<1>7. TreeTypes' /\ Homes' /\ Grows
  BY <1>1, <1>6, TypeParts, TreeUnchanged DEF TreeTypes
<1>8. CallOK(c)'
  BY <1>1, <1>3, <1>5 DEF CallOK, OwnMessage
<1>. QED
  BY <1>5, <1>7, <1>8 DEF Sound

(* A session ends without an answer.                                       *)
LEMMA WorkerFailsSound ==
  ASSUME Core, NEW c \in Calls, WorkerFails(c)
  PROVE  Sound(c)
<1>. DEFINE row == [call[c] EXCEPT !.at = "over"]
<1>1. /\ TypeOK /\ Homes /\ CallOK(c) /\ call[c] \in Call /\ call[c].op = "chat"
      /\ UNCHANGED <<tree, compaction, faults>>
  BY DEF Core, CallsOK, TypeOK, WorkerFails
<1>2. row \in Call
  BY <1>1 DEF Call
<1>3. /\ row.at = "over" /\ row.op = "chat" /\ row.sess = call[c].sess
      /\ row.home = call[c].home /\ row.todo = call[c].todo /\ row.handoff = call[c].handoff
  BY <1>1 DEF Call
<1>4. call' = [call EXCEPT ![c] = row]
  BY <1>1 DEF TypeOK, WorkerFails
<1>. HIDE DEF row
<1>5. /\ RowTypes' /\ call'[c] = row
      /\ \A d \in Calls \ {c} : call'[d] = call[d] /\ compaction'[d] = compaction[d]
  BY <1>1, <1>2, <1>4, RowReplaced DEF TypeOK
<1>6. TreeTypes' /\ Homes' /\ Grows
  BY <1>1, TypeParts, TreeUnchanged DEF tree, TreeTypes
<1>7. CallOK(c)'
  BY <1>1, <1>3, <1>5 DEF CallOK, tree
<1>. QED
  BY <1>5, <1>6, <1>7 DEF Sound

(* The rest of what a call has to append.                                  *)
LEMMA RestOfTexts ==
  ASSUME NEW s \in Seq(Texts), s # << >>
  PROVE  /\ Head(s) \in Texts /\ Tail(s) \in Seq(Texts)
         /\ Head(s) = s[1] /\ 1 \in DOMAIN s
         /\ Len(s) \in Nat \ {0} /\ (Len(s) = 1 <=> Tail(s) = << >>)
         /\ \A i \in DOMAIN Tail(s) : i + 1 \in DOMAIN s /\ Tail(s)[i] = s[i + 1]
<1>1. Len(s) \in Nat \ {0} /\ DOMAIN s = 1..Len(s)
  OBVIOUS
<1>2. /\ Head(s) = s[1] /\ Tail(s) \in Seq(Texts) /\ Len(Tail(s)) = Len(s) - 1
      /\ \A i \in 1..Len(Tail(s)) : Tail(s)[i] = s[i + 1]
  OBVIOUS
<1>3. DOMAIN Tail(s) = 1..(Len(s) - 1)
  BY <1>2
<1>4. Len(s) = 1 <=> Tail(s) = << >>
  BY <1>1, <1>2
<1>5. Head(s) \in Texts /\ 1 \in DOMAIN s
  BY <1>1, <1>2
<1>6. \A i \in DOMAIN Tail(s) : i + 1 \in DOMAIN s /\ Tail(s)[i] = s[i + 1]
  BY <1>1, <1>2, <1>3
<1>. QED
  BY <1>1, <1>2, <1>4, <1>5, <1>6

(* Failing inserts leave the tree alone.                                   *)
LEMMA NotInsertedKeeps ==
  ASSUME Core, NEW c \in Calls, NotInserted(c)
  PROVE  TreeTypes' /\ Homes' /\ Grows /\ faults' \in 0..MaxFaults /\ UNCHANGED tree
<1>1. UNCHANGED tree
  BY DEF NotInserted
<1>2. faults' \in 0..MaxFaults
  BY FaultTypes DEF NotInserted, Core, TypeOK
<1>. QED
  BY <1>1, <1>2, TypeParts, TreeUnchanged DEF tree, TreeTypes, Core

(* A message of a turn is appended, or is not.                             *)
LEMMA AppendTurnSound ==
  ASSUME Core, NEW c \in Calls, AppendTurn(c)
  PROVE  Sound(c)
<1>. DEFINE at == IF Len(call[c].todo) = 1 THEN "count" ELSE "read"
            row == [call[c] EXCEPT !.todo = Tail(call[c].todo), !.at = at]
<1>1. /\ TypeOK /\ Homes /\ CallOK(c) /\ call[c] \in Call
      /\ call[c].op = "chat" /\ call[c].at = "insert"
      /\ UNCHANGED compaction
  BY DEF Core, CallsOK, TypeOK, AppendTurn
<1>2. /\ call[c].todo \in Seq(Texts) /\ call[c].todo # << >>
      /\ \A i \in DOMAIN call[c].todo : call[c].todo[i].home = call[c].home
      /\ call[c].sess \in Sessions
  BY <1>1 DEF CallOK, Call
<1>3. TreeTypes' /\ Homes' /\ Grows /\ faults' \in 0..MaxFaults
  BY <1>1, InsertKeeps, NotInsertedKeeps DEF AppendTurn
<1>4. /\ Tail(call[c].todo) \in Seq(Texts)
      /\ at # "count" => Tail(call[c].todo) # << >>
      /\ \A i \in DOMAIN Tail(call[c].todo) : Tail(call[c].todo)[i].home = call[c].home
  BY <1>2, RestOfTexts
<1>5. call' = [call EXCEPT ![c] = row]
  BY <1>1 DEF TypeOK, AppendTurn
<1>6. at \in {"count", "read"}
  OBVIOUS
<1>. HIDE DEF at
<1>7. row \in Call
  BY <1>1, <1>4, <1>6 DEF Call
<1>8. /\ row.at = at /\ row.op = "chat" /\ row.sess = call[c].sess
      /\ row.home = call[c].home /\ row.todo = Tail(call[c].todo)
      /\ row.handoff = call[c].handoff
  BY <1>1 DEF Call
<1>. HIDE DEF row
<1>9. /\ RowTypes' /\ call'[c] = row
      /\ \A d \in Calls \ {c} : call'[d] = call[d] /\ compaction'[d] = compaction[d]
  BY <1>1, <1>3, <1>7, <1>5, RowReplaced
<1>10. project'[call[c].sess] = project[call[c].sess]
  BY <1>1, <1>2, <1>3 DEF Grows, CallOK
<1>11. CallOK(c)'
  <2>1. row.home = project'[row.sess] /\ row.home # NoProject
    BY <1>1, <1>8, <1>10 DEF CallOK
  <2>2. \A i \in DOMAIN row.todo : row.todo[i].home = row.home
    BY <1>4, <1>8
  <2>3. row.at = "read" => row.todo # << >>
    BY <1>4, <1>8
  <2>4. compaction'[c].at = "none"
    BY <1>1 DEF CallOK
  <2>. QED
    BY <1>2, <1>8, <1>6, <1>9, <2>1, <2>2, <2>3, <2>4 DEF CallOK
<1>. QED
  BY <1>3, <1>9, <1>11 DEF Sound

(* The turn is counted; a compaction may begin.                            *)
LEMMA CountTurnSound ==
  ASSUME Core, NEW c \in Calls, CountTurn(c)
  PROVE  Sound(c)
<1>. DEFINE row == [call[c] EXCEPT !.at = "over"]
<1>1. /\ TypeOK /\ Homes /\ CallOK(c) /\ call[c] \in Call /\ call[c].op = "chat"
      /\ call[c].at = "count"
      /\ UNCHANGED <<tree, faults>>
  BY DEF Core, CallsOK, CallOK, TypeOK, CountTurn
<1>2. row \in Call
  BY <1>1 DEF Call
<1>3. /\ row.at = "over" /\ row.op = "chat" /\ row.sess = call[c].sess
      /\ row.home = call[c].home /\ row.todo = call[c].todo /\ row.handoff = call[c].handoff
  BY <1>1 DEF Call
<1>4. call' = [call EXCEPT ![c] = row]
  BY <1>1 DEF TypeOK, CountTurn
<1>5. /\ compaction' \in [Calls -> Compaction]
      /\ \A d \in Calls \ {c} : compaction'[d] = compaction[d]
  BY <1>1 DEF TypeOK, CountTurn, Compaction
<1>. HIDE DEF row
<1>6. /\ RowTypes' /\ call'[c] = row
      /\ \A d \in Calls \ {c} : call'[d] = call[d] /\ compaction'[d] = compaction[d]
  BY <1>1, <1>2, <1>4, <1>5 DEF TypeOK, RowTypes
<1>7. TreeTypes' /\ Homes' /\ Grows
  BY <1>1, TypeParts, TreeUnchanged DEF tree, TreeTypes
<1>8. CallOK(c)'
  BY <1>1, <1>3, <1>6 DEF CallOK, tree
<1>. QED
  BY <1>6, <1>7, <1>8 DEF Sound

(* A compaction begins, reads, or writes: the call it belongs to is over.  *)
LEMMA CompactionSound ==
  ASSUME Core, NEW c \in Calls, compaction[c].at # "none", NEW row \in Compaction,
         compaction' = [compaction EXCEPT ![c] = row],
         UNCHANGED <<call, messages, live, project, leaf, raced, branched>>,
         summary' \in [Sessions -> [kind : {"none", "handoff", "digest"}, of : SUBSET Nat]],
         through' \in [Sessions -> 0..Len(messages)], faults' \in 0..MaxFaults
  PROVE  Sound(c)
<1>1. TypeOK /\ CallOK(c)
  BY DEF Core, CallsOK
<1>2. RowTypes' /\ \A d \in Calls \ {c} : call'[d] = call[d] /\ compaction'[d] = compaction[d]
  BY <1>1 DEF TypeOK, RowTypes
<1>3. TreeTypes' /\ Homes' /\ Grows
  BY <1>1, TypeParts, TreeUnchanged DEF TreeTypes
<1>4. CallOK(c)'
  BY <1>1 DEF CallOK, OwnMessage
<1>. QED
  BY <1>2, <1>3, <1>4 DEF Sound

(* No compaction is typed.                                                 *)
LEMMA NoCompactionTyped == NoCompaction \in Compaction
  BY DEF NoCompaction, Compaction

(* The first transaction of a compaction.                                  *)
LEMMA CompactReadSessionSound ==
  ASSUME Core, NEW c \in Calls, CompactReadSession(c)
  PROVE  Sound(c)
<1>. DEFINE s == call[c].sess
            row == IF s \in live THEN [at |-> "messages", through |-> through[s], of |-> {}]
                   ELSE NoCompaction
<1>1. TypeOK /\ compaction[c].at = "session" /\ UNCHANGED <<tree, call, faults>>
  BY DEF Core, CompactReadSession
<1>2. row \in Compaction
  <2>1. s \in live => through[s] \in Nat
    BY <1>1 DEF TypeOK
  <2>. QED
    BY <2>1, NoCompactionTyped DEF Compaction
<1>3. compaction' = [compaction EXCEPT ![c] = row]
  BY DEF CompactReadSession
<1>. HIDE DEF row
<1>. QED
  BY <1>1, <1>2, <1>3, CompactionSound DEF tree, TypeOK

(* The rows that are to be summarised, and the last of them.               *)
LEMMA WhatIsCompacted ==
  ASSUME TypeOK, NEW s, ToCompact(s) # {}
  PROVE  /\ MaxOf(ToCompact(s)) \in ToCompact(s) /\ MaxOf(ToCompact(s)) \in 1..Len(messages)
         /\ ToCompact(s) = UpTo(s, MaxOf(ToCompact(s)))
<1>. DEFINE old == ToCompact(s)
            N == Len(messages)
            Above(n) == {k \in Rows(s) : n < k}
<1>1. N \in Nat /\ DOMAIN messages = 1..N /\ Rows(s) \subseteq 1..N
  BY DEF TypeOK, Rows
<1>2. old = {n \in Rows(s) : Cardinality(Above(n)) >= Window}
  BY DEF ToCompact
<1>3. old \subseteq 0..N /\ old \subseteq 1..N
  BY <1>1, <1>2
<1>4. MaxOf(old) \in old /\ \A k \in old : k <= MaxOf(old)
  <2>1. old # {}
    OBVIOUS
  <2>. HIDE DEF old
  <2>. QED
    BY <1>1, <1>3, <2>1, GreatestNumber
<1>5. ASSUME NEW n \in Rows(s), n <= MaxOf(old) PROVE n \in old
  <2>. DEFINE top == MaxOf(old)
  <2>1. top \in 1..N /\ n \in 1..N /\ Cardinality(Above(top)) >= Window
    BY <1>1, <1>2, <1>3, <1>4
  <2>. HIDE DEF top
  <2>2. Above(top) \subseteq Above(n)
    BY <1>1, <1>5, <2>1 DEF top
  <2>3. IsFiniteSet(Above(n))
    <3>1. IsFiniteSet(1..N) /\ Above(n) \subseteq 1..N
      BY <1>1, FS_Interval
    <3>. QED
      BY <3>1, FS_Subset
  <2>4. /\ Cardinality(Above(top)) <= Cardinality(Above(n))
        /\ Cardinality(Above(top)) \in Nat /\ Cardinality(Above(n)) \in Nat
    <3>1. IsFiniteSet(Above(top)) /\ Cardinality(Above(top)) <= Cardinality(Above(n))
      BY <2>2, <2>3, FS_Subset
    <3>. QED
      BY <2>3, <3>1, FS_CardinalityType
  <2>5. Cardinality(Above(n)) >= Window
    BY <2>1, <2>4, SessionAssumptions
  <2>. QED
    BY <1>2, <2>5
<1>6. old \subseteq Rows(s)
  BY <1>2
<1>7. old = UpTo(s, MaxOf(old))
  <2>. HIDE DEF old
  <2>. QED
    BY <1>4, <1>5, <1>6 DEF UpTo
<1>. QED
  BY <1>3, <1>4, <1>7

(* The second.                                                             *)
LEMMA CompactReadMessagesSound ==
  ASSUME Core, NEW c \in Calls, CompactReadMessages(c)
  PROVE  Sound(c)
<1>. DEFINE old == ToCompact(call[c].sess)
            more == old # {} /\ compaction[c].through < MaxOf(old)
            row == IF more THEN [at |-> "summarise", through |-> MaxOf(old), of |-> old]
                   ELSE NoCompaction
<1>1. TypeOK /\ compaction[c].at = "messages" /\ UNCHANGED <<tree, call, faults>>
  BY DEF Core, CompactReadMessages
<1>2. row \in Compaction
  <2>1. more => MaxOf(old) \in Nat /\ old \in SUBSET Nat
    <3>1. old \subseteq DOMAIN messages /\ DOMAIN messages \subseteq Nat
      BY <1>1 DEF ToCompact, Rows, TypeOK
    <3>2. more => MaxOf(old) \in old
      BY <1>1, WhatIsCompacted
    <3>. QED
      BY <3>1, <3>2
  <2>. HIDE DEF more, old
  <2>. QED
    BY <2>1, NoCompactionTyped DEF Compaction
<1>3. compaction' = [compaction EXCEPT ![c] = row]
  BY DEF CompactReadMessages
<1>. HIDE DEF row
<1>. QED
  BY <1>1, <1>2, <1>3, CompactionSound DEF tree, TypeOK

(* The third.                                                              *)
LEMMA CompactWriteSound ==
  ASSUME Core, DigestOK, NEW c \in Calls, CompactWrite(c)
  PROVE  Sound(c)
<1>. DEFINE s == call[c].sess
<1>1. /\ TypeOK /\ compaction[c].at = "summarise"
      /\ compaction' = [compaction EXCEPT ![c] = NoCompaction]
      /\ UNCHANGED <<messages, live, project, leaf, raced, branched, call>>
  BY DEF Core, CompactWrite
<1>2. compaction[c] \in Compaction /\ compaction[c].through \in 0..Len(messages)
  BY <1>1 DEF TypeOK, DigestOK, Compaction
<1>3. /\ summary' \in [Sessions -> [kind : {"none", "handoff", "digest"}, of : SUBSET Nat]]
      /\ through' \in [Sessions -> 0..Len(messages)]
  <2>1. CASE UNCHANGED <<summary, through>>
    BY <1>1, <2>1 DEF TypeOK
  <2>2. CASE /\ summary' = [summary EXCEPT ![s] = [kind |-> "digest", of |-> compaction[c].of]]
             /\ through' = [through EXCEPT ![s] = Covered(c)]
    <3>1. [kind |-> "digest", of |-> compaction[c].of]
            \in [kind : {"none", "handoff", "digest"}, of : SUBSET Nat]
      BY <1>2 DEF Compaction
    <3>. QED
      BY <1>1, <1>2, <2>2, <3>1 DEF TypeOK, Covered
  <2>. QED
    BY <2>1, <2>2 DEF CompactWrite
<1>4. faults' \in 0..MaxFaults
  BY <1>1, FaultTypes DEF CompactWrite, TypeOK
<1>. QED
  BY <1>1, <1>3, <1>4, NoCompactionTyped, CompactionSound

(* A fork begins: a session is created and the branch is to be copied.     *)
LEMMA ForkSound ==
  ASSUME Core, NEW c \in Calls, NEW s \in Sessions, NEW p \in Projects, Fork(c, s, p)
  PROVE  Sound(c)
<1>. DEFINE branch == BranchOf[leaf[s]]
            texts == TextsOf(branch)
            row(new) == [Idle EXCEPT !.op = "fork", !.at = "read", !.sess = new,
                                     !.home = p, !.todo = texts]
<1>1. /\ TypeOK /\ Homes /\ CallOK(c) /\ call[c].at = "idle"
      /\ Authorized(s, p) /\ branch # << >>
      /\ UNCHANGED <<messages, leaf, summary, through, compaction, raced, branched>>
  BY DEF Core, CallsOK, Fork
<1>2. PICK new \in Sessions :
        CreateSession(new, p) /\ call' = [call EXCEPT ![c] = row(new)]
  BY DEF Fork
<1>3. leaf[s] \in 0..Len(messages) /\ leaf[s] # None
      /\ OwnMessage(leaf[s], s) /\ project[s] = p
  <2>1. leaf[s] \in 0..Len(messages) /\ OwnMessage(leaf[s], s) /\ project[s] = p
    BY <1>1 DEF TypeOK, Homes, Authorized
  <2>2. leaf[s] = None => branch = << >>
    BY <1>1, <2>1, MessagesAreTree, WalkStep, BranchIsWalk DEF Onward
  <2>. QED
    BY <1>1, <2>1, <2>2
<1>4. /\ branch \in Seq(1..Len(messages)) /\ texts \in Seq(Texts)
      /\ \A k \in ToSet(branch) : k \in DOMAIN messages /\ messages[k].sess = messages[leaf[s]].sess
  BY <1>1, <1>3, BranchIsInside
<1>5. /\ DOMAIN texts = DOMAIN branch /\ DOMAIN branch = 1..Len(branch)
      /\ Len(branch) \in Nat \ {0}
      /\ \A i \in DOMAIN branch : texts[i] = messages[branch[i]].text
  <2>. HIDE DEF branch
  <2>. QED
    BY <1>1, <1>4 DEF TextsOf
<1>6. texts # << >> /\ \A i \in DOMAIN texts : texts[i].home = p
  <2>1. ASSUME NEW i \in DOMAIN branch PROVE texts[i].home = p
    <3>1. branch[i] \in ToSet(branch)
      BY DEF ToSet
    <3>2. branch[i] \in DOMAIN messages /\ messages[branch[i]].sess = s
      BY <1>3, <1>4, <3>1 DEF OwnMessage
    <3>. QED
      BY <1>1, <1>3, <1>5, <3>2 DEF Homes
  <2>2. 1 \in DOMAIN texts
    <3>. HIDE DEF branch, texts
    <3>. QED
      BY <1>5
  <2>. QED
    BY <1>5, <2>1, <2>2
<1>. HIDE DEF texts, branch
<1>7. row(new) \in Call
  <2>1. Idle \in Call
    BY IdleTyped
  <2>. QED
    BY <1>4, <2>1 DEF Call
<1>8. /\ row(new).at = "read" /\ row(new).op = "fork" /\ row(new).sess = new
      /\ row(new).home = p /\ row(new).todo = texts /\ row(new).handoff = "none"
  BY DEF Idle
<1>. HIDE DEF row
<1>9. TreeTypes' /\ Homes' /\ Grows /\ faults' \in 0..MaxFaults
  BY <1>1, <1>2, CreateKeeps
<1>10. project'[new] = p
  BY <1>1, <1>2 DEF CreateSession, TypeOK
<1>11. /\ RowTypes' /\ call'[c] = row(new)
       /\ \A d \in Calls \ {c} : call'[d] = call[d] /\ compaction'[d] = compaction[d]
  BY <1>1, <1>2, <1>7, <1>9, RowReplaced
<1>12. CallOK(c)'
  BY <1>1, <1>2, <1>6, <1>8, <1>10, <1>11, SessionAssumptions DEF CallOK
<1>. QED
  BY <1>9, <1>11, <1>12 DEF Sound

(* What a fork has copied and has still to copy.                           *)
LEMMA AppendCopySound ==
  ASSUME Core, NEW c \in Calls, AppendCopy(c)
  PROVE  Sound(c)
<1>. DEFINE N == Len(messages)
            Row(rest, parent, done, at) ==
              [call[c] EXCEPT !.todo = rest, !.parent = parent, !.done = done, !.at = at]
<1>1. /\ TypeOK /\ Homes /\ CallOK(c) /\ call[c] \in Call
      /\ call[c].op = "fork" /\ call[c].at = "insert" /\ UNCHANGED compaction
  BY DEF Core, CallsOK, TypeOK, AppendCopy
<1>2. /\ call[c].todo \in Seq(Texts) /\ call[c].todo # << >> /\ call[c].done \in Seq(Texts)
      /\ \A i \in DOMAIN call[c].todo : call[c].todo[i].home = call[c].home
      /\ call[c].sess \in Sessions
  BY <1>1 DEF CallOK, Call
<1>3. /\ Tail(call[c].todo) \in Seq(Texts) /\ Head(call[c].todo) \in Texts
      /\ \A i \in DOMAIN Tail(call[c].todo) : Tail(call[c].todo)[i].home = call[c].home
  BY <1>2, RestOfTexts
<1>4. TreeTypes' /\ Homes' /\ Grows /\ faults' \in 0..MaxFaults
  BY <1>1, InsertKeeps, NotInsertedKeeps DEF AppendCopy
<1>5. PICK parent \in Nat, done \in Seq(Texts) :
        /\ parent = None \/ (parent \in DOMAIN messages' /\ messages'[parent].sess = call[c].sess)
        /\ call' = [call EXCEPT ![c] = Row(Tail(call[c].todo), parent, done,
                                           NextCopy(Tail(call[c].todo), parent))]
  <2>1. CASE /\ Inserted(c, Head(call[c].todo))
             /\ call' = [call EXCEPT ![c].todo = Tail(@), ![c].parent = N + 1,
                           ![c].done = Append(@, Head(call[c].todo)),
                           ![c].at = NextCopy(Tail(call[c].todo), N + 1)]
    <3>1. /\ DOMAIN messages' = DOMAIN messages \cup {N + 1}
          /\ messages'[N + 1] = [sess |-> call[c].sess, parent |-> call[c].parent,
                                 text |-> Head(call[c].todo)]
      BY <1>1, <2>1, InsertKeeps
    <3>2. N + 1 \in DOMAIN messages' /\ messages'[N + 1].sess = call[c].sess
      BY <3>1
    <3>3. N + 1 \in Nat /\ Append(call[c].done, Head(call[c].todo)) \in Seq(Texts)
      BY <1>1, <1>2, <1>3 DEF TypeOK
    <3>4. call' = [call EXCEPT ![c] = Row(Tail(call[c].todo), N + 1,
                     Append(call[c].done, Head(call[c].todo)),
                     NextCopy(Tail(call[c].todo), N + 1))]
      BY <1>1, <2>1 DEF TypeOK
    <3>. QED
      BY <3>2, <3>3, <3>4
  <2>2. CASE call' = [call EXCEPT ![c].todo = Tail(@), ![c].parent = None,
                        ![c].at = NextCopy(Tail(call[c].todo), None)]
    <3>1. call' = [call EXCEPT ![c] = Row(Tail(call[c].todo), None, call[c].done,
                                          NextCopy(Tail(call[c].todo), None))]
      BY <1>1, <2>2 DEF TypeOK, Call
    <3>2. None \in Nat
      BY DEF None
    <3>. QED
      BY <1>2, <3>1, <3>2
  <2>. QED
    BY <2>1, <2>2 DEF AppendCopy
<1>. DEFINE rest == Tail(call[c].todo)
            at == NextCopy(rest, parent)
            row == Row(rest, parent, done, at)
<1>6. at \in {"over", "read", "insert"} /\ (at # "over" => rest # << >>)
  BY DEF NextCopy
<1>. HIDE DEF at
<1>7. row \in Call
  BY <1>1, <1>3, <1>5, <1>6 DEF Call
<1>8. /\ row.at = at /\ row.op = "fork" /\ row.sess = call[c].sess /\ row.parent = parent
      /\ row.home = call[c].home /\ row.todo = rest /\ row.handoff = call[c].handoff
  BY <1>1 DEF Call
<1>9. call' = [call EXCEPT ![c] = row]
  BY <1>5 DEF at
<1>. HIDE DEF row
<1>10. /\ RowTypes' /\ call'[c] = row
       /\ \A d \in Calls \ {c} : call'[d] = call[d] /\ compaction'[d] = compaction[d]
  BY <1>1, <1>4, <1>7, <1>9, RowReplaced
<1>11. project'[call[c].sess] = project[call[c].sess]
  BY <1>1, <1>2, <1>4 DEF Grows, CallOK
<1>12. CallOK(c)'
  <2>1. /\ row.home = project'[row.sess] /\ row.home # NoProject
        /\ \A i \in DOMAIN row.todo : row.todo[i].home = row.home
    BY <1>1, <1>3, <1>8, <1>11 DEF CallOK
  <2>2. OwnMessage(call[c].parent, call[c].sess)'
    BY <1>5, <1>8, <1>10 DEF OwnMessage
  <2>3. compaction'[c].at = "none" /\ row.handoff # "due"
    BY <1>1, <1>8 DEF CallOK
  <2>. QED
    BY <1>2, <1>6, <1>8, <1>10, <2>1, <2>2, <2>3 DEF CallOK, OwnMessage
<1>. QED
  BY <1>4, <1>10, <1>12 DEF Sound

(* The parent of a message of the session is looked up.                    *)
LEMMA BranchReadSound ==
  ASSUME Core, NEW c \in Calls, NEW s \in Sessions, NEW m \in DOMAIN messages,
         BranchRead(c, s, m)
  PROVE  Sound(c)
<1>. DEFINE row == [Idle EXCEPT !.op = "branch", !.at = "set", !.sess = s,
                                !.parent = messages[m].parent]
<1>1. /\ TypeOK /\ Homes /\ CallOK(c) /\ call[c].at = "idle" /\ messages[m].sess = s
      /\ call' = [call EXCEPT ![c] = row] /\ UNCHANGED <<tree, compaction, faults>>
  BY DEF Core, CallsOK, BranchRead, InTree, Rows
<1>2. messages[m].parent \in Nat /\ OwnMessage(messages[m].parent, s)
  <2>1. messages[m] \in Message /\ messages[m].parent \in 0..(m - 1) /\ m \in 1..Len(messages)
    BY <1>1, MessagesAreTree DEF IsTree, TypeOK
  <2>2. messages[m].parent # None =>
          messages[m].parent \in DOMAIN messages /\ messages[messages[m].parent].sess = s
    BY <1>1, <2>1 DEF TypeOK, None
  <2>. QED
    BY <2>1, <2>2 DEF OwnMessage
<1>3. row \in Call
  <2>1. Idle \in Call
    BY IdleTyped
  <2>. QED
    BY <1>2, <2>1 DEF Call
<1>4. /\ row.at = "set" /\ row.op = "branch" /\ row.sess = s
      /\ row.parent = messages[m].parent /\ row.handoff = "none"
  BY DEF Idle
<1>. HIDE DEF row
<1>5. /\ RowTypes' /\ call'[c] = row
      /\ \A d \in Calls \ {c} : call'[d] = call[d] /\ compaction'[d] = compaction[d]
  BY <1>1, <1>3, RowReplaced DEF TypeOK
<1>6. TreeTypes' /\ Homes' /\ Grows
  BY <1>1, TypeParts, TreeUnchanged DEF tree, TreeTypes
<1>7. CallOK(c)'
  BY <1>1, <1>2, <1>4, <1>5 DEF CallOK, OwnMessage, tree
<1>. QED
  BY <1>5, <1>6, <1>7 DEF Sound

(* The leaf goes to that parent.                                           *)
LEMMA BranchSetSound ==
  ASSUME Core, NEW c \in Calls, BranchSet(c)
  PROVE  Sound(c)
<1>. DEFINE s == call[c].sess
            row == [call[c] EXCEPT !.at = "over"]
<1>1. /\ TypeOK /\ Homes /\ CallOK(c) /\ call[c] \in Call /\ call[c].at = "set"
      /\ call[c].op = "branch" /\ s \in Sessions /\ OwnMessage(call[c].parent, s)
      /\ UNCHANGED <<messages, live, project, summary, through, compaction, raced, faults>>
  BY DEF Core, CallsOK, CallOK, TypeOK, BranchSet
<1>2. row \in Call
  BY <1>1 DEF Call
<1>3. /\ row.at = "over" /\ row.op = "branch" /\ row.sess = s /\ row.handoff = call[c].handoff
  BY <1>1 DEF Call
<1>4. call' = [call EXCEPT ![c] = row]
  BY <1>1 DEF TypeOK, BranchSet
<1>. HIDE DEF row
<1>5. /\ RowTypes' /\ call'[c] = row
      /\ \A d \in Calls \ {c} : call'[d] = call[d] /\ compaction'[d] = compaction[d]
  BY <1>1, <1>2, <1>4, RowReplaced DEF TypeOK
<1>6. call[c].parent \in 0..Len(messages)
  BY <1>1 DEF TypeOK, OwnMessage, None
<1>7. /\ leaf' \in [Sessions -> 0..Len(messages)] /\ branched' \subseteq Sessions
      /\ \A r \in Sessions : leaf'[r] \in {leaf[r], IF r = s THEN call[c].parent ELSE leaf[r]}
  BY <1>1, <1>6 DEF BranchSet, NewLeaf, TypeOK
<1>8. TreeTypes' /\ Grows
  BY <1>1, <1>7, TypeParts DEF TreeTypes, Grows
<1>9. Homes'
  <2>1. \A r \in Sessions : OwnMessage(leaf[r], r)'
    BY <1>1, <1>7 DEF Homes, OwnMessage
  <2>. QED
    BY <1>1, <2>1 DEF Homes
<1>10. CallOK(c)'
  BY <1>1, <1>3, <1>5 DEF CallOK
<1>. QED
  BY <1>5, <1>8, <1>9, <1>10 DEF Sound

(* The step of a call keeps the types, the homes and what every call holds. *)
LEMMA CallStepCore ==
  ASSUME Core, DigestOK, NEW c \in Calls, CallStep(c)
  PROVE  Core' /\ Grows
<1>1. Sound(c)
  BY ReadLeafSound, ChatSound, WorkerAnswersSound, SaveHandoffSound, WorkerFailsSound,
     AppendTurnSound, CountTurnSound, CompactReadSessionSound, CompactReadMessagesSound,
     CompactWriteSound, ForkSound, AppendCopySound, BranchReadSound, BranchSetSound
  DEF CallStep
<1>2. TypeOK' /\ Homes' /\ Grows /\ CallOK(c)'
  BY <1>1, TypeParts DEF Sound
<1>3. ASSUME NEW d \in Calls \ {c} PROVE CallOK(d)'
  BY <1>1, <1>2, CallStays DEF Sound
<1>. QED
  BY <1>2, <1>3 DEF Core, CallsOK

(* So does the end of a session.                                           *)
LEMMA DeleteSessionCore ==
  ASSUME Core, NEW s \in Sessions, DeleteSession(s)
  PROVE  Core' /\ Grows
<1>1. /\ live' \subseteq live
      /\ UNCHANGED <<messages, project, leaf, summary, through, call, compaction,
                     raced, branched, faults>>
  BY DEF DeleteSession
<1>2. TypeOK' /\ Homes' /\ Grows
  BY <1>1 DEF Core, TypeOK, Homes, OwnMessage, Grows
<1>3. ASSUME NEW c \in Calls PROVE CallOK(c)'
  BY <1>1, <1>2, CallStays
<1>. QED
  BY <1>2, <1>3 DEF Core, CallsOK

-----------------------------------------------------------------------------
(* What a step does to the branches                                         *)

Created(s) ==
  Fresh(s) /\ live' \in {live, live \cup {s}} /\ UNCHANGED <<messages, leaf, raced, branched>>
Hung(c) == call[c].at = "insert" /\ Inserted(c, Head(call[c].todo))
Moved(c) ==
  /\ call[c].at = "set" /\ call[c].sess \in live
  /\ branched' = branched \cup {call[c].sess}
  /\ leaf' = [leaf EXCEPT ![call[c].sess] = call[c].parent]
  /\ UNCHANGED <<messages, live, raced>>

(* Leaves and messages change when a session is created, a message is      *)
(* appended or a branch is set, and in no other way.                       *)
LEMMA TreeMoves ==
  ASSUME NEW c \in Calls, CallStep(c)
  PROVE  \/ UNCHANGED <<messages, live, leaf, raced, branched>>
         \/ \E s \in Sessions : Created(s)
         \/ Hung(c)
         \/ Moved(c)
<1>1. ASSUME NEW s \in Sessions, NEW p \in Projects, Chat(c, s, p) \/ Fork(c, s, p)
      PROVE  UNCHANGED <<messages, live, leaf, raced, branched>> \/ \E t \in Sessions : Created(t)
  BY <1>1 DEF Chat, Fork, CreateSession, Created
<1>2. AppendTurn(c) \/ AppendCopy(c)
        => UNCHANGED <<messages, live, leaf, raced, branched>> \/ Hung(c)
  BY DEF AppendTurn, AppendCopy, NotInserted, tree, Hung
<1>3. BranchSet(c) => UNCHANGED <<messages, live, leaf, raced, branched>> \/ Moved(c)
  BY DEF BranchSet, NewLeaf, Moved
<1>4. ASSUME NEW s \in Sessions, NEW m \in DOMAIN messages, BranchRead(c, s, m)
      PROVE  UNCHANGED <<messages, live, leaf, raced, branched>>
  BY <1>4 DEF BranchRead, tree
<1>5. ReadLeaf(c) \/ WorkerAnswers(c) \/ SaveHandoff(c) \/ WorkerFails(c) \/ CountTurn(c)
        \/ CompactReadSession(c) \/ CompactReadMessages(c) \/ CompactWrite(c)
        => UNCHANGED <<messages, live, leaf, raced, branched>>
  BY DEF ReadLeaf, WorkerAnswers, SaveHandoff, WorkerFails, CountTurn, CompactReadSession,
         CompactReadMessages, CompactWrite, tree
<1>. QED
  BY <1>1, <1>2, <1>3, <1>4, <1>5 DEF CallStep

(* A session whose leaf and rows are left alone.                           *)
Untouched(s) ==
  /\ s \in live' /\ leaf'[s] = leaf[s]
  /\ \A n \in DOMAIN messages' \ DOMAIN messages : messages'[n].sess # s

(* It shows what it showed.                                                *)
LEMMA UntouchedShowsTheSame ==
  ASSUME Core, TypeOK', Grows, NEW s \in live, Untouched(s)
  PROVE  /\ Rows(s)' = Rows(s) /\ BranchOf'[leaf'[s]] = BranchOf[leaf[s]]
         /\ TextsOf(BranchOf[leaf[s]])' = TextsOf(BranchOf[leaf[s]])
<1>1. s \in Sessions /\ s \in live' /\ TypeOK /\ leaf[s] \in 0..Len(messages)
      /\ OwnMessage(leaf[s], s)
  BY DEF Core, TypeOK, Untouched, Homes
<1>2. Rows(s)' = Rows(s)
  <2>1. \A n \in DOMAIN messages : n \in DOMAIN messages' /\ messages'[n] = messages[n]
    BY DEF Grows
  <2>2. \A n : n \in DOMAIN messages' /\ messages'[n].sess = s
               <=> n \in DOMAIN messages /\ messages[n].sess = s
    BY <2>1 DEF Untouched
  <2>. QED
    BY <1>1, <2>2 DEF Rows
<1>3. BranchOf'[leaf[s]] = BranchOf[leaf[s]]
  BY <1>1, BranchKept DEF OwnMessage
<1>4. BranchOf'[leaf'[s]] = BranchOf[leaf[s]]
  BY <1>3 DEF Untouched
<1>5. TextsOf(BranchOf[leaf[s]])' = TextsOf(BranchOf[leaf[s]])
  <2>. DEFINE b == BranchOf[leaf[s]]
              T == [i \in DOMAIN b |-> messages[b[i]].text]
              TT == [i \in DOMAIN b |-> messages'[b[i]].text]
  <2>1. \A k \in ToSet(b) : k \in DOMAIN messages
    BY <1>1, BranchIsInside
  <2>2. \A i \in DOMAIN b : messages'[b[i]] = messages[b[i]]
    BY <2>1 DEF ToSet, Grows
  <2>3. TT = T
    BY <2>2
  <2>4. TextsOf(BranchOf[leaf[s]])' = TT
    BY <1>4 DEF TextsOf
  <2>5. TextsOf(BranchOf[leaf[s]]) = T
    BY DEF TextsOf
  <2>. QED
    BY <2>3, <2>4, <2>5
<1>. QED
  BY <1>2, <1>4, <1>5

(* A session just created shows nothing.                                   *)
LEMMA CreatedIsEmpty ==
  ASSUME Core, TypeOK', NEW s \in Sessions, Created(s)
  PROVE  Rows(s)' = {} /\ BranchOf'[leaf'[s]] = << >>
<1>1. /\ Fresh(s) /\ messages' = messages /\ leaf'[s] = None
      /\ \A n \in DOMAIN messages : messages[n].sess # s
  BY FreshIsEmpty DEF Created
<1>2. Rows(s)' = {}
  BY <1>1 DEF Rows
<1>3. IsTree(messages') /\ None \in 0..Len(messages')
  <2>1. IsTree(messages)'
    BY MessagesAreTree, PTL
  <2>. QED
    BY <2>1 DEF IsTree, None
<1>4. Walk(messages', live')[None] = << >>
  BY <1>3, WalkStep DEF Onward
<1>5. BranchOf' = Walk(messages', live')
  BY DEF BranchOf, Walk
<1>. QED
  BY <1>1, <1>2, <1>4, <1>5

(* A sequence that goes on with one element.                               *)
LEMMA OneMore ==
  ASSUME NEW S, NEW T \in Seq(S), NEW e, NEW TT,
         TT = [i \in 1..(Len(T) + 1) |-> TT[i]],
         \A i \in 1..Len(T) : TT[i] = T[i], TT[Len(T) + 1] = e
  PROVE  TT = Append(T, e)
<1>. DEFINE R == S \cup {e}
<1>1. T \in Seq(R) /\ Len(T) \in Nat /\ \A i \in 1..Len(T) : T[i] \in R
  OBVIOUS
<1>2. /\ Append(T, e) \in Seq(R) /\ Len(Append(T, e)) = Len(T) + 1
      /\ \A i \in 1..Len(T) : Append(T, e)[i] = T[i]
      /\ Append(T, e)[Len(T) + 1] = e
  BY <1>1, AppendProperties
<1>3. TT \in Seq(R) /\ Len(TT) = Len(T) + 1
  <2>1. ASSUME NEW i \in 1..(Len(T) + 1) PROVE TT[i] \in R
    <3>1. CASE i = Len(T) + 1
      BY <3>1
    <3>2. CASE i # Len(T) + 1
      <4>1. i \in 1..Len(T)
        BY <1>1, <3>2
      <4>. QED
        BY <1>1, <4>1
    <3>. QED
      BY <3>1, <3>2
  <2>2. TT \in [1..(Len(T) + 1) -> R]
    BY <2>1
  <2>. QED
    BY <1>1, <2>2
<1>4. \A i \in 1..Len(TT) : TT[i] = Append(T, e)[i]
  BY <1>1, <1>2, <1>3
<1>. QED
  BY <1>2, <1>3, <1>4, SeqEqual

(* An appended message is the end of the branch of its parent.             *)
LEMMA HungIsAppended ==
  ASSUME Core, TypeOK', NEW c \in Calls, Hung(c), NEW s, s = call[c].sess
  PROVE  /\ s \in live /\ s \in Sessions /\ call[c].parent \in 0..Len(messages)
         /\ \A r \in Sessions \ {s} : r \in live => Untouched(r)
         /\ Rows(s)' = Rows(s) \cup {Len(messages) + 1}
         /\ BranchOf'[leaf'[s]] = Append(BranchOf[call[c].parent], Len(messages) + 1)
         /\ leaf'[s] = Len(messages) + 1
         /\ TextsOf(BranchOf[leaf[s]])' =
              Append(TextsOf(BranchOf[call[c].parent]), Head(call[c].todo))
<1>. DEFINE N == Len(messages)
            p == call[c].parent
            b == BranchOf[p]
<1>1. /\ TreeTypes' /\ Homes' /\ Grows
      /\ s \in live /\ s \in Sessions /\ live' = live
      /\ DOMAIN messages' = DOMAIN messages \cup {N + 1} /\ N + 1 \notin DOMAIN messages
      /\ Len(messages') = N + 1 /\ N \in Nat
      /\ messages'[N + 1] = [sess |-> s, parent |-> p, text |-> Head(call[c].todo)]
      /\ p \in 0..N
      /\ leaf' = [leaf EXCEPT ![s] = N + 1]
  <2>1. call[c].at = "insert" /\ Inserted(c, Head(call[c].todo)) /\ N \in Nat
    BY DEF Hung, Core, TypeOK
  <2>. QED
    BY <2>1, InsertKeeps
<1>2. TypeOK /\ OwnMessage(p, s) /\ leaf \in [Sessions -> 0..N] /\ DOMAIN messages = 1..N
  BY <1>1 DEF Core, TypeOK, CallsOK, CallOK, Hung
<1>3. leaf'[s] = N + 1 /\ \A r \in Sessions \ {s} : leaf'[r] = leaf[r]
  BY <1>1, <1>2
<1>4. \A r \in Sessions \ {s} : r \in live => Untouched(r)
  BY <1>1, <1>3 DEF Untouched
<1>5. Rows(s)' = Rows(s) \cup {N + 1}
  <2>1. \A n \in DOMAIN messages : messages'[n] = messages[n]
    BY <1>1 DEF Grows
  <2>. QED
    BY <1>1, <2>1 DEF Rows
<1>6. BranchOf'[p] = b
  BY <1>1, <1>2, BranchKept DEF OwnMessage
<1>7. BranchOf'[N + 1] = Append(b, N + 1)
  <2>1. IsTree(messages')
    <3>1. IsTree(messages)'
      BY MessagesAreTree, PTL
    <3>. QED
      BY <3>1 DEF IsTree
  <2>2. N + 1 \in 0..Len(messages') /\ N + 1 # None /\ messages'[N + 1].sess \in live'
        /\ messages'[N + 1].parent = p
    BY <1>1 DEF None
  <2>3. Walk(messages', live')[N + 1] = Append(Walk(messages', live')[p], N + 1)
    BY <2>1, <2>2, WalkStep DEF Onward
  <2>4. BranchOf' = Walk(messages', live')
    BY DEF BranchOf, Walk
  <2>. QED
    BY <1>6, <2>3, <2>4
<1>8. TextsOf(BranchOf[leaf[s]])' = Append(TextsOf(b), Head(call[c].todo))
  <2>1. b \in Seq(1..N)
    BY <1>1, <1>2, BranchIsInside
  <2>2. /\ BranchOf'[leaf'[s]] = Append(b, N + 1)
        /\ \A i \in 1..N : messages'[i] = messages[i]
        /\ messages'[N + 1].text = Head(call[c].todo)
    BY <1>1, <1>2, <1>3, <1>7 DEF Grows
  <2>. DEFINE bb == Append(b, N + 1)
              TT == [i \in DOMAIN bb |-> messages'[bb[i]].text]
              T == [i \in DOMAIN b |-> messages[b[i]].text]
  <2>3. TextsOf(BranchOf[leaf[s]])' = TT
    BY <2>2 DEF TextsOf
  <2>4. TextsOf(b) = T
    BY DEF TextsOf
  <2>. HIDE DEF b
  <2>5. /\ Len(b) \in Nat /\ DOMAIN b = 1..Len(b) /\ DOMAIN bb = 1..(Len(b) + 1)
        /\ \A i \in 1..Len(b) : bb[i] = b[i] /\ b[i] \in 1..N
        /\ bb[Len(b) + 1] = N + 1
    BY <1>1, <2>1
  <2>6. \A i \in 1..Len(b) : messages'[bb[i]].text = messages[b[i]].text
    BY <2>2, <2>5
  <2>. HIDE DEF bb
  <2>7. /\ T = [i \in 1..Len(b) |-> messages[b[i]].text]
        /\ TT = [i \in 1..(Len(b) + 1) |-> messages'[bb[i]].text]
    BY <2>5
  <2>8. Len(T) = Len(b) /\ T \in Seq({messages[b[i]].text : i \in 1..Len(b)})
    <3>1. T \in [1..Len(b) -> {messages[b[i]].text : i \in 1..Len(b)}]
      BY <2>7
    <3>. HIDE DEF T
    <3>. QED
      BY <2>5, <3>1
  <2>9. TT = Append(T, Head(call[c].todo))
    <3>1. \A i \in 1..Len(b) : TT[i] = T[i]
      BY <2>6, <2>7
    <3>2. TT[Len(b) + 1] = Head(call[c].todo)
      BY <2>2, <2>5, <2>7
    <3>3. TT = [i \in 1..(Len(T) + 1) |-> TT[i]]
      BY <2>7, <2>8
    <3>. DEFINE S == {messages[b[i]].text : i \in 1..Len(b)}
    <3>. HIDE DEF T, TT, S
    <3>4. T \in Seq(S) /\ Len(T) = Len(b)
      BY <2>8 DEF S
    <3>5. \A i \in 1..Len(T) : TT[i] = T[i]
      BY <3>1, <3>4
    <3>6. TT[Len(T) + 1] = Head(call[c].todo)
      BY <3>2, <3>4
    <3>. QED
      BY <3>3, <3>4, <3>5, <3>6, OneMore
  <2>. QED
    BY <2>3, <2>4, <2>9
<1>. QED
  BY <1>1, <1>3, <1>4, <1>5, <1>7, <1>8

(* What is set by /branch is one session's leaf.                           *)
LEMMA MovedIsOne ==
  ASSUME Core, NEW c \in Calls, Moved(c), NEW r \in live, r # call[c].sess
  PROVE  Untouched(r)
<1>1. leaf \in [Sessions -> 0..Len(messages)] /\ r \in Sessions /\ live' = live
      /\ messages' = messages
  BY DEF Core, TypeOK, Moved
<1>. QED
  BY <1>1 DEF Untouched, Moved

(* A session nobody works on is left alone.                                *)
LEMMA OthersAreUntouched ==
  ASSUME Core, TypeOK', NEW c \in Calls, CallStep(c), NEW r \in live,
         r # call[c].sess \/ call[c].at \notin {"insert", "set"}
  PROVE  Untouched(r)
<1>1. r \in Sessions
  BY DEF Core, TypeOK
<1>2. CASE UNCHANGED <<messages, live, leaf, raced, branched>>
  BY <1>2 DEF Untouched
<1>3. CASE \E s \in Sessions : Created(s)
  BY <1>3 DEF Untouched, Created
<1>4. CASE Hung(c)
  BY <1>1, <1>4, HungIsAppended DEF Hung
<1>5. CASE Moved(c)
  BY <1>5, MovedIsOne DEF Moved
<1>. QED
  BY <1>2, <1>3, <1>4, <1>5, TreeMoves

-----------------------------------------------------------------------------
(* The history is linear                                                    *)

Increasing(b) == \A i, j \in DOMAIN b : i < j => b[i] < b[j]

(* What is older goes first.                                               *)
LEMMA AppendedStaysLinear ==
  ASSUME NEW N \in Nat, NEW b \in Seq(1..N), Increasing(b)
  PROVE  Increasing(Append(b, N + 1)) /\ ToSet(Append(b, N + 1)) = ToSet(b) \cup {N + 1}
<1>. DEFINE bb == Append(b, N + 1)
<1>1. /\ Len(b) \in Nat /\ DOMAIN b = 1..Len(b) /\ DOMAIN bb = 1..(Len(b) + 1)
      /\ \A i \in 1..Len(b) : bb[i] = b[i] /\ b[i] \in 1..N
      /\ bb[Len(b) + 1] = N + 1
  OBVIOUS
<1>. HIDE DEF bb
<1>2. Increasing(bb)
  <2>. SUFFICES ASSUME NEW i \in DOMAIN bb, NEW j \in DOMAIN bb, i < j PROVE bb[i] < bb[j]
    BY DEF Increasing
  <2>1. i \in 1..Len(b)
    BY <1>1
  <2>2. CASE j \in 1..Len(b)
    BY <1>1, <2>1, <2>2 DEF Increasing
  <2>3. CASE j = Len(b) + 1
    BY <1>1, <2>1, <2>3
  <2>. QED
    BY <1>1, <2>2, <2>3
<1>3. ToSet(bb) = ToSet(b) \cup {N + 1}
  BY <1>1 DEF ToSet
<1>. QED
  BY <1>2, <1>3 DEF bb

LinearIn(s) == ToSet(BranchOf[leaf[s]]) = Rows(s) /\ Increasing(BranchOf[leaf[s]])

(* LinearHistory, session by session.                                      *)
LEMMA LinearByOne ==
  /\ LinearHistory <=> \A s \in live \ (raced \cup branched) : LinearIn(s)
  /\ LinearHistory' <=> \A s \in live' \ (raced' \cup branched') : LinearIn(s)'
  BY DEF LinearHistory, LinearIn, Increasing

(* An empty session is linear.                                             *)
LEMMA EmptyIsLinear == ToSet(<< >>) = {} /\ Increasing(<< >>)
  BY DEF ToSet, Increasing

(* What a session shows after a step that left it alone is as linear.      *)
LEMMA UntouchedStaysLinear ==
  ASSUME Core, TypeOK', Grows, NEW s \in live, Untouched(s), LinearIn(s)
  PROVE  LinearIn(s)'
<1>1. Rows(s)' = Rows(s) /\ BranchOf'[leaf'[s]] = BranchOf[leaf[s]]
  BY UntouchedShowsTheSame
<1>. QED
  BY <1>1 DEF LinearIn

(* The step of a call keeps the history linear.                            *)
LEMMA CallStepLinear ==
  ASSUME Core, TypeOK', Grows, LinearHistory, NEW c \in Calls, CallStep(c)
  PROVE  LinearHistory'
<1>1. ASSUME NEW s \in live', s \notin raced', s \notin branched'
      PROVE  LinearIn(s)'
  <2>1. s \in Sessions /\ live \subseteq Sessions
    BY DEF Core, TypeOK
  <2>2. CASE UNCHANGED <<messages, live, leaf, raced, branched>>
    <3>1. s \in live /\ LinearIn(s) /\ Untouched(s)
      BY <1>1, <2>2, LinearByOne DEF Untouched
    <3>. QED
      BY <3>1, UntouchedStaysLinear
  <2>3. CASE \E t \in Sessions : Created(t)
    <3>1. PICK t \in Sessions : Created(t)
      BY <2>3
    <3>2. CASE s \in live
      <4>1. LinearIn(s) /\ Untouched(s)
        BY <1>1, <3>1, <3>2, LinearByOne DEF Untouched, Created
      <4>. QED
        BY <3>2, <4>1, UntouchedStaysLinear
    <3>3. CASE s \notin live
      <4>1. s = t
        BY <3>1, <3>3 DEF Created
      <4>2. Rows(s)' = {} /\ BranchOf'[leaf'[s]] = << >>
        BY <3>1, <4>1, CreatedIsEmpty
      <4>. QED
        BY <4>2, EmptyIsLinear DEF LinearIn
    <3>. QED
      BY <3>2, <3>3
  <2>4. CASE Hung(c)
    <3>1. live' = live /\ branched' = branched
          /\ raced' = IF call[c].parent = leaf[call[c].sess] THEN raced
                      ELSE raced \cup {call[c].sess}
      BY <2>4 DEF Hung, Inserted
    <3>2. s \in live /\ s \notin raced /\ s \notin branched
      BY <1>1, <3>1
    <3>3. LinearIn(s)
      BY <3>2, LinearByOne
    <3>4. CASE s # call[c].sess
      <4>1. Untouched(s)
        BY <2>1, <2>4, <3>2, <3>4, HungIsAppended
      <4>. QED
        BY <3>2, <3>3, <4>1, UntouchedStaysLinear
    <3>5. CASE s = call[c].sess
      <4>. DEFINE N == Len(messages)
                  b == BranchOf[leaf[s]]
      <4>1. call[c].parent = leaf[s]
        BY <1>1, <3>1, <3>5
      <4>2. Rows(s)' = Rows(s) \cup {N + 1} /\ BranchOf'[leaf'[s]] = Append(b, N + 1)
        BY <2>4, <3>5, <4>1, HungIsAppended
      <4>3. N \in Nat /\ b \in Seq(1..N)
        <5>1. TypeOK /\ N \in Nat /\ leaf[s] \in 0..N
          BY <2>1 DEF Core, TypeOK
        <5>. QED
          BY <5>1, BranchIsInside
      <4>4. Increasing(b) /\ ToSet(b) = Rows(s)
        BY <3>3 DEF LinearIn
      <4>. HIDE DEF N, b
      <4>5. Increasing(Append(b, N + 1)) /\ ToSet(Append(b, N + 1)) = Rows(s)'
        BY <4>2, <4>3, <4>4, AppendedStaysLinear
      <4>. QED
        BY <4>2, <4>5 DEF LinearIn
    <3>. QED
      BY <3>4, <3>5
  <2>5. CASE Moved(c)
    <3>1. s \in live /\ s \notin raced /\ s \notin branched /\ s # call[c].sess
      BY <1>1, <2>5 DEF Moved
    <3>2. LinearIn(s) /\ Untouched(s)
      BY <2>5, <3>1, LinearByOne, MovedIsOne
    <3>. QED
      BY <3>1, <3>2, UntouchedStaysLinear
  <2>. QED
    BY <2>2, <2>3, <2>4, <2>5, TreeMoves
<1>. QED
  BY <1>1, LinearByOne

-----------------------------------------------------------------------------
(* Forks keep the order                                                     *)

(* A call works on one session as long as it lasts.                        *)
LEMMA CallKeepsSession ==
  ASSUME Core, NEW c \in Calls, CallStep(c), call[c].op # "none"
  PROVE  call'[c].sess = call[c].sess /\ call'[c].op = call[c].op
<1>1. call \in [Calls -> Call] /\ call[c] \in Call /\ call[c].at # "idle"
  BY DEF Core, TypeOK, CallsOK, CallOK
<1>2. ~\E s \in Sessions, p \in Projects : Chat(c, s, p) \/ Fork(c, s, p)
  BY <1>1 DEF Chat, Fork
<1>3. ~\E s \in Sessions : \E m \in DOMAIN messages : BranchRead(c, s, m)
  BY <1>1 DEF BranchRead
<1>4. CASE ReadLeaf(c) \/ WorkerFails(c) \/ CountTurn(c) \/ BranchSet(c) \/ SaveHandoff(c)
  BY <1>1, <1>4 DEF ReadLeaf, WorkerFails, CountTurn, BranchSet, SaveHandoff, Call
<1>5. CASE AppendTurn(c)
  BY <1>1, <1>5 DEF AppendTurn, Call
<1>6. CASE AppendCopy(c)
  BY <1>1, <1>6 DEF AppendCopy, Call
<1>7. CASE CompactReadSession(c) \/ CompactReadMessages(c) \/ CompactWrite(c)
  BY <1>7 DEF CompactReadSession, CompactReadMessages, CompactWrite
<1>8. CASE WorkerAnswers(c)
  <2>. DEFINE two == <<Text("user", c, call[c].home), Text("assistant", c, call[c].home)>>
  <2>1. PICK handoff \in {"due", "saved", "lost"} :
          call' = [call EXCEPT ![c].at = "read", ![c].handoff = handoff, ![c].todo = two]
    BY <1>8 DEF WorkerAnswers
  <2>. QED
    BY <1>1, <2>1 DEF Call
<1>. QED
  BY <1>2, <1>3, <1>4, <1>5, <1>6, <1>7, <1>8 DEF CallStep

(* The others keep what they hold.                                         *)
LEMMA OthersKeepRows ==
  ASSUME Core, NEW c \in Calls, CallStep(c), NEW d \in Calls \ {c}
  PROVE  call'[d] = call[d]
<1>1. call \in [Calls -> Call]
  BY DEF Core, TypeOK
<1>. QED
  BY <1>1 DEF CallStep, Chat, Fork, BranchRead, ReadLeaf, WorkerAnswers, SaveHandoff,
     WorkerFails, AppendTurn, CountTurn, AppendCopy, BranchSet, CompactReadSession,
     CompactReadMessages, CompactWrite

(* A fork that is left alone was left alone before.                        *)
LEMMA AloneBefore ==
  ASSUME Core, NEW c \in Calls, CallStep(c), NEW d \in Calls,
         call[d].op = "fork", call'[d].sess = call[d].sess, Alone(d)'
  PROVE  Alone(d)
<1>. SUFFICES ASSUME NEW e \in Calls \ {d} PROVE call[e].sess # call[d].sess
  BY DEF Alone
<1>1. call'[e].sess # call[d].sess
  BY DEF Alone
<1>2. CASE e # c
  BY <1>1, <1>2, OthersKeepRows
<1>3. CASE e = c /\ call[c].op # "none"
  BY <1>1, <1>3, CallKeepsSession
<1>4. CASE e = c /\ call[c].op = "none"
  <2>1. call[c].sess = None /\ call[d].sess \in Sessions
    BY <1>4 DEF Core, CallsOK, CallOK
  <2>. QED
    BY <1>4, <2>1, SessionAssumptions
<1>. QED
  BY <1>2, <1>3, <1>4

(* Where forks change: at their start, at a read and at a copy.            *)
LEMMA ForkSteps ==
  ASSUME Core, NEW c \in Calls, CallStep(c), call'[c].op = "fork"
  PROVE  \/ \E s \in Sessions, p \in Projects : Fork(c, s, p)
         \/ ReadLeaf(c) /\ call[c].op = "fork"
         \/ AppendCopy(c)
<1>1. call \in [Calls -> Call] /\ call[c] \in Call /\ CallOK(c)
  BY DEF Core, TypeOK, CallsOK
<1>2. CASE call[c].op # "none"
  <2>1. call[c].op = "fork" /\ call[c].at # "idle"
    BY <1>1, <1>2, CallKeepsSession DEF CallOK
  <2>. QED
    BY <1>1, <2>1 DEF CallStep, Chat, Fork, BranchRead, WorkerAnswers, SaveHandoff,
       WorkerFails, AppendTurn, CountTurn, BranchSet, CompactReadSession,
       CompactReadMessages, CompactWrite, CallOK
<1>3. CASE call[c].op = "none"
  <2>1. call[c].at = "idle" /\ compaction[c].at = "none" /\ call[c].handoff # "due"
    BY <1>1, <1>3 DEF CallOK
  <2>2. ASSUME NEW s \in Sessions, NEW p \in Projects, Chat(c, s, p) PROVE FALSE
    BY <1>1, <2>2 DEF Chat, Idle
  <2>3. ASSUME NEW s \in Sessions, NEW m \in DOMAIN messages, BranchRead(c, s, m) PROVE FALSE
    BY <1>1, <2>3 DEF BranchRead, Idle
  <2>. QED
    BY <2>1, <2>2, <2>3 DEF CallStep, ReadLeaf, WorkerAnswers, SaveHandoff,
       WorkerFails, AppendTurn, CountTurn, AppendCopy, BranchSet, CompactReadSession,
       CompactReadMessages, CompactWrite
<1>. QED
  BY <1>2, <1>3

(* What the acting call has copied is what its session shows.              *)
LEMMA OwnCopyKept ==
  ASSUME Core, TypeOK', Grows, CopiesOK, NEW c \in Calls, CallStep(c),
         call'[c].op = "fork", call'[c].sess \in live', Alone(c)'
  PROVE  CopyOK(c)'
<1>1. /\ TypeOK /\ call \in [Calls -> Call] /\ call[c] \in Call /\ CallOK(c)
      /\ leaf \in [Sessions -> 0..Len(messages)] /\ Len(messages) \in Nat
      /\ live \subseteq Sessions
  BY DEF Core, TypeOK, CallsOK
<1>2. ASSUME NEW s \in Sessions, NEW p \in Projects, Fork(c, s, p)
      PROVE  CopyOK(c)'
  <2>1. PICK new \in Sessions :
          /\ CreateSession(new, p)
          /\ call' = [call EXCEPT ![c] = [Idle EXCEPT !.op = "fork", !.at = "read",
                       !.sess = new, !.home = p, !.todo = TextsOf(BranchOf[leaf[s]])]]
    BY <1>2 DEF Fork
  <2>2. Created(new)
    BY <1>2, <2>1 DEF Created, CreateSession, Fork
  <2>3. BranchOf'[leaf'[new]] = << >>
    BY <2>2, CreatedIsEmpty
  <2>4. call'[c].sess = new /\ call'[c].at = "read" /\ call'[c].done = << >>
    BY <1>1, <2>1 DEF Idle
  <2>5. TextsOf(BranchOf[leaf[call[c].sess]])' = << >>
    BY <2>3, <2>4 DEF TextsOf
  <2>. QED
    BY <2>4, <2>5 DEF CopyOK
<1>3. CASE call[c].op = "fork"
  <2>. DEFINE s == call[c].sess
  <2>1. /\ call'[c].sess = s /\ s \in Sessions
    BY <1>1, <1>3, CallKeepsSession DEF CallOK
  <2>2. Alone(c)
    BY <1>3, <2>1, AloneBefore
  <2>3. CASE ReadLeaf(c)
    <3>1. /\ UNCHANGED tree /\ call'[c].at = "insert" /\ call'[c].done = call[c].done
          /\ call'[c].parent = IF s \in live THEN leaf[s] ELSE None
      BY <1>1, <2>3 DEF ReadLeaf, Call
    <3>2. s \in live /\ leaf'[s] = leaf[s] /\ Untouched(s)
      BY <2>1, <3>1 DEF tree, Untouched
    <3>3. TextsOf(BranchOf[leaf[s]]) = call[c].done
      BY <1>3, <2>2, <3>2 DEF CopiesOK, CopyOK
    <3>4. TextsOf(BranchOf[leaf[call[c].sess]])' = call[c].done
      <4>. DEFINE b == BranchOf'[leaf'[s]]
      <4>1. [k \in DOMAIN b |-> messages'[b[k]].text] = call[c].done
        <5>1. \A r \in live : Untouched(r) => TextsOf(BranchOf[leaf[r]])' = TextsOf(BranchOf[leaf[r]])
          BY UntouchedShowsTheSame
        <5>. QED
          BY <3>2, <3>3, <5>1 DEF TextsOf
      <4>. QED
        BY <2>1, <4>1 DEF TextsOf
    <3>. QED
      BY <2>1, <3>1, <3>2, <3>4 DEF CopyOK
  <2>4. CASE AppendCopy(c)
    <3>1. CASE /\ Inserted(c, Head(call[c].todo))
               /\ call' = [call EXCEPT ![c].todo = Tail(@), ![c].parent = Len(messages) + 1,
                             ![c].done = Append(@, Head(call[c].todo)),
                             ![c].at = NextCopy(Tail(call[c].todo), Len(messages) + 1)]
      <4>1. Hung(c) /\ call[c].at = "insert"
        BY <2>4, <3>1 DEF Hung, AppendCopy
      <4>2. /\ call'[c].parent = Len(messages) + 1
            /\ call'[c].done = Append(call[c].done, Head(call[c].todo))
        BY <1>1, <3>1 DEF Call
      <4>3. \A r : r = s => /\ r \in live /\ leaf'[r] = Len(messages) + 1
                            /\ TextsOf(BranchOf[leaf[r]])' =
                                 Append(TextsOf(BranchOf[call[c].parent]), Head(call[c].todo))
        BY <4>1, HungIsAppended
      <4>4. TextsOf(BranchOf[leaf[s]]) = call[c].done /\ call[c].parent = leaf[s]
        BY <1>3, <2>2, <4>1, <4>3 DEF CopiesOK, CopyOK
      <4>5. TextsOf(BranchOf[leaf[call[c].sess]])' = Append(call[c].done, Head(call[c].todo))
        BY <2>1, <4>3, <4>4 DEF TextsOf
      <4>. QED
        BY <2>1, <4>2, <4>3, <4>5 DEF CopyOK
    <3>2. CASE /\ NotInserted(c)
               /\ call' = [call EXCEPT ![c].todo = Tail(@), ![c].parent = None,
                             ![c].at = NextCopy(Tail(call[c].todo), None)]
      <4>1. /\ UNCHANGED tree /\ call'[c].at # "insert" /\ call'[c].done = call[c].done
        BY <1>1, <3>2 DEF NotInserted, NextCopy, Call
      <4>2. s \in live /\ Untouched(s)
        BY <2>1, <4>1 DEF tree, Untouched
      <4>3. TextsOf(BranchOf[leaf[s]]) = call[c].done
        BY <1>3, <2>2, <4>2 DEF CopiesOK, CopyOK
      <4>4. TextsOf(BranchOf[leaf[call[c].sess]])' = call[c].done
        <5>1. \A r \in live : Untouched(r) => TextsOf(BranchOf[leaf[r]])' = TextsOf(BranchOf[leaf[r]])
          BY UntouchedShowsTheSame
        <5>. QED
          BY <2>1, <4>2, <4>3, <5>1 DEF TextsOf
      <4>. QED
        BY <4>1, <4>4 DEF CopyOK
    <3>. QED
      BY <2>4, <3>1, <3>2 DEF AppendCopy
  <2>5. ~\E r \in Sessions, p \in Projects : Fork(c, r, p)
    BY <1>1, <1>3 DEF Fork, CallOK
  <2>. QED
    BY <2>3, <2>4, <2>5, ForkSteps
<1>. QED
  BY <1>2, <1>3, ForkSteps DEF AppendCopy

(* What another call has copied still is.                                  *)
LEMMA OtherCopyKept ==
  ASSUME Core, TypeOK', Grows, CopiesOK, NEW c \in Calls, CallStep(c), NEW d \in Calls \ {c},
         call'[d].op = "fork", call'[d].sess \in live', Alone(d)'
  PROVE  CopyOK(d)'
<1>. DEFINE s == call[d].sess
<1>1. call'[d] = call[d]
  BY OthersKeepRows
<1>2. Alone(d)
  BY <1>1, AloneBefore
<1>3. s \in live /\ s # call[c].sess
  <2>1. s # call[c].sess
    BY <1>2 DEF Alone
  <2>2. \A t \in Sessions : Created(t) => s # t
    BY <1>1, FreshIsEmpty DEF Created
  <2>3. s \in live' => s \in live
    BY <2>2, TreeMoves DEF Created, Hung, Inserted, Moved
  <2>. QED
    BY <1>1, <2>1, <2>3
<1>4. Untouched(s)
  BY <1>3, OthersAreUntouched
<1>5. /\ TextsOf(BranchOf[leaf[s]]) = call[d].done
      /\ call[d].at = "insert" => call[d].parent = leaf[s]
  BY <1>1, <1>2, <1>3 DEF CopiesOK, CopyOK
<1>6. TextsOf(BranchOf[leaf[call[d].sess]])' = call[d].done
  <2>1. \A r \in live : Untouched(r) => TextsOf(BranchOf[leaf[r]])' = TextsOf(BranchOf[leaf[r]])
    BY UntouchedShowsTheSame
  <2>. QED
    BY <1>1, <1>3, <1>4, <1>5, <2>1 DEF TextsOf
<1>7. leaf'[s] = leaf[s]
  BY <1>4 DEF Untouched
<1>. QED
  BY <1>1, <1>5, <1>6, <1>7 DEF CopyOK

(* Every copy is kept by the step of a call.                               *)
LEMMA CallStepCopies ==
  ASSUME Core, TypeOK', Grows, CopiesOK, NEW c \in Calls, CallStep(c)
  PROVE  CopiesOK'
<1>1. ASSUME NEW d \in Calls PROVE CopyOK(d)'
  <2>1. CASE call'[d].op = "fork" /\ call'[d].sess \in live' /\ Alone(d)'
    BY <2>1, OwnCopyKept, OtherCopyKept
  <2>2. CASE ~(call'[d].op = "fork" /\ call'[d].sess \in live' /\ Alone(d)')
    BY <2>2 DEF CopyOK
  <2>. QED
    BY <2>1, <2>2
<1>. QED
  BY <1>1 DEF CopiesOK

-----------------------------------------------------------------------------
(* Digests cover what they claim                                            *)

(* Messages that are added later are beyond every earlier one.             *)
LEMMA UpToKept ==
  ASSUME TypeOK, TypeOK', Grows, NEW s \in live, s \in live', NEW n \in 0..Len(messages)
  PROVE  UpTo(s, n)' = UpTo(s, n)
<1>1. /\ Len(messages) \in Nat /\ DOMAIN messages = 1..Len(messages)
      /\ Len(messages') \in Nat /\ DOMAIN messages' = 1..Len(messages')
  BY DEF TypeOK
<1>2. \A k \in DOMAIN messages : k \in DOMAIN messages' /\ messages'[k] = messages[k]
  BY DEF Grows
<1>3. \A k : k \in DOMAIN messages' /\ k <= n <=> k \in DOMAIN messages /\ k <= n
  BY <1>1, <1>2
<1>. QED
  BY <1>2, <1>3 DEF UpTo, Rows

(* What a step may do to a compaction and to a summary.                    *)
Digests ==
  /\ \A c \in Calls :
       /\ compaction'[c].through \in 0..Len(messages)
       /\ compaction'[c].at = "summarise" =>
            /\ compaction[c].at # "none" /\ call'[c].sess = call[c].sess
            /\ call[c].sess \in live =>
                 compaction'[c].of = UpTo(call[c].sess, compaction'[c].through)
  /\ \A s \in Sessions : summary'[s].kind = "digest" =>
       project[s] # NoProject /\ (s \in live => summary'[s].of = UpTo(s, through'[s]))
  /\ \A s \in Sessions : through'[s] \in 0..Len(messages)

(* Such a step keeps DigestOK.                                             *)
LEMMA DigestsKept ==
  ASSUME Core, Core', Grows, Digests, \A s \in live' : s \in live \/ project[s] = NoProject
  PROVE  DigestOK'
<1>1. /\ TypeOK /\ TypeOK' /\ Len(messages) \in Nat /\ Len(messages') \in Nat
      /\ Len(messages) <= Len(messages') /\ live' \subseteq Sessions
  <2>1. TypeOK /\ TypeOK' /\ Len(messages) \in Nat /\ Len(messages') \in Nat
        /\ DOMAIN messages = 1..Len(messages) /\ DOMAIN messages' = 1..Len(messages')
        /\ live' \subseteq Sessions
    BY DEF Core, TypeOK
  <2>2. Len(messages) = 0 \/ Len(messages) \in DOMAIN messages'
    BY <2>1 DEF Grows
  <2>. QED
    BY <2>1, <2>2
<1>2. \A s \in live, n \in 0..Len(messages) : s \in live' =>
        UpTo(s, n) = {k \in {j \in DOMAIN messages' : messages'[j].sess = s /\ s \in live'} : k <= n}
  BY <1>1, UpToKept DEF UpTo, Rows
<1>3. ASSUME NEW c \in Calls, compaction'[c].at = "summarise", call'[c].sess \in live'
      PROVE  compaction'[c].of = UpTo(call[c].sess, compaction[c].through)'
  <2>1. call'[c].sess = call[c].sess /\ compaction[c].at # "none"
        /\ compaction'[c].through \in 0..Len(messages)
    BY <1>3 DEF Digests
  <2>2. project[call[c].sess] # NoProject
    BY <2>1 DEF Core, CallsOK, CallOK
  <2>3. call[c].sess \in live
    BY <1>3, <2>1, <2>2
  <2>4. compaction'[c].of = UpTo(call[c].sess, compaction'[c].through)
    BY <1>3, <2>3 DEF Digests
  <2>. QED
    BY <1>2, <1>3, <2>1, <2>3, <2>4 DEF UpTo, Rows
<1>4. ASSUME NEW c \in Calls PROVE compaction'[c].through <= Len(messages')
  <2>1. compaction'[c].through \in 0..Len(messages)
    BY DEF Digests
  <2>. QED
    BY <1>1, <2>1
<1>5. ASSUME NEW s \in Sessions, summary'[s].kind = "digest"
      PROVE  project'[s] # NoProject /\ (s \in live' => summary'[s].of = UpTo(s, through[s])')
  <2>1. project[s] # NoProject /\ (s \in live => summary'[s].of = UpTo(s, through'[s]))
        /\ through'[s] \in 0..Len(messages)
    BY <1>5 DEF Digests
  <2>2. project'[s] # NoProject
    BY <2>1 DEF Grows
  <2>3. s \in live' => s \in live
    BY <2>1
  <2>. QED
    BY <1>2, <2>1, <2>2, <2>3 DEF UpTo, Rows
<1>. QED
  BY <1>3, <1>4, <1>5 DEF DigestOK

(* Before a step, everything is as DigestOK has it.                        *)
LEMMA DigestsBefore ==
  ASSUME Core, DigestOK
  PROVE  /\ \A c \in Calls :
              /\ compaction[c].through \in 0..Len(messages)
              /\ compaction[c].at = "summarise" /\ call[c].sess \in live =>
                   compaction[c].of = UpTo(call[c].sess, compaction[c].through)
         /\ \A s \in Sessions :
              /\ through[s] \in 0..Len(messages)
              /\ summary[s].kind = "digest" =>
                   project[s] # NoProject /\ (s \in live => summary[s].of = UpTo(s, through[s]))
<1>1. /\ through \in [Sessions -> 0..Len(messages)] /\ compaction \in [Calls -> Compaction]
      /\ Len(messages) \in Nat
  BY DEF Core, TypeOK
<1>2. \A c \in Calls : compaction[c].through \in 0..Len(messages)
  BY <1>1 DEF DigestOK, Compaction
<1>. QED
  BY <1>1, <1>2 DEF DigestOK

(* A step that leaves compactions, summaries and sessions at work alone.   *)
LEMMA NoDigestStep ==
  ASSUME Core, DigestOK, UNCHANGED <<compaction, summary, through>>,
         \A c \in Calls : call[c].op # "none" => call'[c].sess = call[c].sess
  PROVE  Digests
<1>1. \A c \in Calls : compaction[c].at # "none" => call[c].op # "none"
  BY DEF Core, CallsOK, CallOK
<1>. QED
  BY <1>1, DigestsBefore DEF Digests

(* The step of a call, by what it does to digests.                         *)
LEMMA CallStepDigests ==
  ASSUME Core, DigestOK, NEW c \in Calls, CallStep(c)
  PROVE  Digests
<1>1. /\ call \in [Calls -> Call] /\ compaction \in [Calls -> Compaction]
      /\ summary \in [Sessions -> [kind : {"none", "handoff", "digest"}, of : SUBSET Nat]]
      /\ through \in [Sessions -> 0..Len(messages)]
      /\ CallOK(c) /\ Len(messages) \in Nat /\ TypeOK
  BY DEF Core, CallsOK, TypeOK
<1>2. ASSUME NEW d \in Calls, call[d].op # "none" PROVE call'[d].sess = call[d].sess
  BY <1>2, CallKeepsSession, OthersKeepRows
<1>3. \A d \in Calls : compaction[d].at # "none" => call[d].op # "none" /\ call[d].op = "chat"
  BY DEF Core, CallsOK, CallOK
<1>4. CASE UNCHANGED <<compaction, summary, through>>
  BY <1>2, <1>4, NoDigestStep
<1>5. CASE WorkerAnswers(c) \/ SaveHandoff(c)
  <2>1. summary' = summary
          \/ summary' = [summary EXCEPT ![call[c].sess] = [kind |-> "handoff", of |-> {}]]
    BY <1>5 DEF WorkerAnswers, SaveHandoff
  <2>2. \A s \in Sessions : summary'[s] = summary[s] \/ summary'[s].kind = "handoff"
    BY <1>1, <2>1
  <2>3. UNCHANGED <<compaction, through>>
    BY <1>5 DEF WorkerAnswers, SaveHandoff
  <2>. QED
    BY <1>2, <1>3, <2>2, <2>3, DigestsBefore DEF Digests
<1>6. CASE CountTurn(c) \/ CompactReadSession(c)
  <2>1. UNCHANGED <<summary, through>>
    BY <1>6 DEF CountTurn, CompactReadSession, tree
  <2>2. \/ compaction' = [compaction EXCEPT ![c].at = "session"]
        \/ compaction' = compaction /\ compaction[c].at = "none"
        \/ compaction' = [compaction EXCEPT ![c] = NoCompaction]
        \/ /\ call[c].sess \in live
           /\ compaction' = [compaction EXCEPT ![c] =
                [at |-> "messages", through |-> through[call[c].sess], of |-> {}]]
    <3>1. CountTurn(c) => compaction[c].at = "none"
      BY <1>1 DEF CountTurn, CallOK
    <3>. QED
      BY <1>6, <3>1 DEF CountTurn, CompactReadSession
  <2>3. call[c].sess \in live => through[call[c].sess] \in 0..Len(messages)
    BY <1>1 DEF TypeOK
  <2>4. /\ \A d \in Calls \ {c} : compaction'[d] = compaction[d]
        /\ compaction'[c].at # "summarise" /\ compaction'[c].through \in 0..Len(messages)
    <3>1. compaction[c] \in Compaction /\ compaction[c].through \in 0..Len(messages)
      BY <1>1, DigestsBefore
    <3>. QED
      BY <1>1, <2>2, <2>3, <3>1 DEF NoCompaction, Compaction
  <2>. QED
    BY <1>2, <1>3, <2>1, <2>4, DigestsBefore DEF Digests
<1>7. CASE CompactReadMessages(c)
  <2>. DEFINE old == ToCompact(call[c].sess)
  <2>1. /\ UNCHANGED <<summary, through, call>>
        /\ \A d \in Calls \ {c} : compaction'[d] = compaction[d]
        /\ compaction[c].at = "messages"
        /\ compaction'[c] = IF old # {} /\ compaction[c].through < MaxOf(old)
                            THEN [at |-> "summarise", through |-> MaxOf(old), of |-> old]
                            ELSE NoCompaction
    BY <1>1, <1>7 DEF CompactReadMessages, tree
  <2>2. old # {} => MaxOf(old) \in 1..Len(messages) /\ old = UpTo(call[c].sess, MaxOf(old))
    BY <1>1, WhatIsCompacted
  <2>. HIDE DEF old
  <2>3. /\ compaction'[c].through \in 0..Len(messages)
        /\ compaction'[c].at = "summarise" =>
             compaction'[c].of = UpTo(call[c].sess, compaction'[c].through)
    BY <1>1, <2>1, <2>2 DEF NoCompaction
  <2>. QED
    BY <1>2, <1>3, <2>1, <2>3, DigestsBefore DEF Digests
<1>8. CASE CompactWrite(c)
  <2>1. /\ UNCHANGED call /\ compaction[c].at = "summarise"
        /\ \A d \in Calls \ {c} : compaction'[d] = compaction[d]
        /\ compaction'[c] = NoCompaction
    BY <1>1, <1>8 DEF CompactWrite
  <2>2. \A d \in Calls :
          /\ compaction'[d].through \in 0..Len(messages)
          /\ compaction'[d].at = "summarise" => compaction'[d] = compaction[d]
    BY <1>1, <2>1, DigestsBefore DEF NoCompaction
  <2>3. ASSUME NEW s \in Sessions
        PROVE  /\ through'[s] \in 0..Len(messages)
               /\ summary'[s].kind = "digest" =>
                    project[s] # NoProject /\ (s \in live => summary'[s].of = UpTo(s, through'[s]))
    <3>1. CASE summary'[s] = summary[s] /\ through'[s] = through[s]
      BY <3>1, DigestsBefore
    <3>2. CASE ~(summary'[s] = summary[s] /\ through'[s] = through[s])
      <4>1. /\ s = call[c].sess /\ s \in live
            /\ summary'[s].of = compaction[c].of /\ through'[s] = compaction[c].through
        BY <1>1, <1>8, <3>2 DEF CompactWrite, Covered
      <4>2. compaction[c].of = UpTo(s, compaction[c].through)
            /\ compaction[c].through \in 0..Len(messages)
        BY <2>1, <4>1, DigestsBefore
      <4>3. project[s] # NoProject
        BY <4>1 DEF Core, Homes
      <4>. QED
        BY <4>1, <4>2, <4>3
    <3>. QED
      BY <3>1, <3>2
  <2>. QED
    BY <1>2, <1>3, <2>1, <2>2, <2>3, DigestsBefore DEF Digests
<1>9. \/ UNCHANGED <<compaction, summary, through>>
      \/ WorkerAnswers(c) \/ SaveHandoff(c) \/ CountTurn(c) \/ CompactReadSession(c)
      \/ CompactReadMessages(c) \/ CompactWrite(c)
  BY DEF CallStep, Chat, Fork, BranchRead, ReadLeaf, WorkerFails, AppendTurn, AppendCopy,
         BranchSet, Inserted, NotInserted, tree
<1>. QED
  BY <1>4, <1>5, <1>6, <1>7, <1>8, <1>9

-----------------------------------------------------------------------------
(* The invariant holds                                                      *)

(* Sessions come to life by being created.                                 *)
LEMMA OnlyFreshAppear ==
  ASSUME NEW c \in Calls, CallStep(c)
  PROVE  \A s \in live' : s \in live \/ project[s] = NoProject
  BY TreeMoves DEF Created, Hung, Inserted, Moved, Fresh

(* The step of a call keeps the invariant.                                 *)
LEMMA CallStepKeeps ==
  ASSUME SessionInv, NEW c \in Calls, CallStep(c)
  PROVE  SessionInv'
<1>1. Core /\ LinearHistory /\ CopiesOK /\ DigestOK
  BY DEF SessionInv, Core
<1>2. Core' /\ Grows
  BY <1>1, CallStepCore
<1>3. TypeOK'
  BY <1>2 DEF Core
<1>4. LinearHistory' /\ CopiesOK'
  BY <1>1, <1>2, <1>3, CallStepLinear, CallStepCopies
<1>5. DigestOK'
  <2>1. Digests /\ \A s \in live' : s \in live \/ project[s] = NoProject
    BY <1>1, CallStepDigests, OnlyFreshAppear
  <2>. QED
    BY <1>1, <1>2, <2>1, DigestsKept
<1>. QED
  BY <1>2, <1>4, <1>5 DEF SessionInv, Core

(* The end of a session keeps it.                                          *)
LEMMA DeleteSessionKeeps ==
  ASSUME SessionInv, NEW t \in Sessions, DeleteSession(t)
  PROVE  SessionInv'
<1>1. Core /\ LinearHistory /\ CopiesOK /\ DigestOK
  BY DEF SessionInv, Core
<1>2. Core' /\ Grows
  BY <1>1, DeleteSessionCore
<1>3. TypeOK' /\ live' = live \ {t}
      /\ UNCHANGED <<messages, project, leaf, summary, through, call, compaction,
                     raced, branched, faults>>
  BY <1>2 DEF Core, DeleteSession
<1>4. \A s \in live' : s \in live /\ Untouched(s)
  BY <1>3 DEF Untouched
<1>5. LinearHistory'
  <2>1. ASSUME NEW s \in live', s \notin raced', s \notin branched' PROVE LinearIn(s)'
    <3>1. s \in live /\ Untouched(s) /\ LinearIn(s)
      BY <1>1, <1>3, <1>4, <2>1, LinearByOne
    <3>. QED
      BY <1>1, <1>2, <1>3, <3>1, UntouchedStaysLinear
  <2>. QED
    BY <2>1, LinearByOne
<1>6. CopiesOK'
  <2>1. ASSUME NEW d \in Calls PROVE CopyOK(d)'
    <3>1. CASE ~(call'[d].op = "fork" /\ call'[d].sess \in live' /\ Alone(d)')
      BY <3>1 DEF CopyOK
    <3>2. CASE call'[d].op = "fork" /\ call'[d].sess \in live' /\ Alone(d)'
      <4>. DEFINE s == call[d].sess
      <4>1. s \in live /\ Untouched(s) /\ Alone(d) /\ call[d].op = "fork"
        BY <1>3, <1>4, <3>2 DEF Alone
      <4>2. \A r \in live : Untouched(r) => TextsOf(BranchOf[leaf[r]])' = TextsOf(BranchOf[leaf[r]])
        BY <1>1, <1>2, <1>3, UntouchedShowsTheSame
      <4>3. /\ TextsOf(BranchOf[leaf[s]]) = call[d].done
            /\ call[d].at = "insert" => call[d].parent = leaf[s]
        BY <1>1, <4>1 DEF CopiesOK, CopyOK
      <4>4. TextsOf(BranchOf[leaf[call[d].sess]])' = call[d].done
        BY <1>3, <4>1, <4>2, <4>3 DEF TextsOf
      <4>. QED
        BY <1>3, <4>3, <4>4 DEF CopyOK
    <3>. QED
      BY <3>1, <3>2
  <2>. QED
    BY <2>1 DEF CopiesOK
<1>7. DigestOK'
  <2>1. Digests
    BY <1>1, <1>3, NoDigestStep
  <2>. QED
    BY <1>1, <1>2, <1>3, <2>1, DigestsKept
<1>. QED
  BY <1>2, <1>5, <1>6, <1>7 DEF SessionInv, Core

(* The seeded sessions are in some order.                                  *)
LEMMA SeedOrderIsOne ==
  /\ SeedOrder \in Seq(Seeded) /\ Len(SeedOrder) \in Nat
  /\ \A i, j \in 1..Len(SeedOrder) : SeedOrder[i] = SeedOrder[j] => i = j
<1>. DEFINE n == Cardinality(Seeded)
<1>1. n \in Nat /\ ExistsBijection(1..n, Seeded)
  BY FS_CardinalityType, SessionAssumptions
<1>2. PICK f : f \in Bijection(1..n, Seeded)
  BY <1>1 DEF ExistsBijection
<1>3. f \in [1..n -> Seeded] /\ IsInjective(f)
  BY <1>2 DEF Bijection, Injection
<1>4. SeedOrder \in [1..n -> Seeded] /\ IsInjective(SeedOrder)
  BY <1>3 DEF SeedOrder, SetToSeq
<1>5. Len(SeedOrder) = n
  BY <1>1, <1>4
<1>6. \A i, j \in 1..n : SeedOrder[i] = SeedOrder[j] => i = j
  BY <1>4 DEF IsInjective
<1>. QED
  BY <1>1, <1>4, <1>5, <1>6

(* A number is the first or the second of its pair.                        *)
LEMMA InPairs ==
  ASSUME NEW K \in Nat, NEW n \in 1..(2 * K)
  PROVE  /\ (n + 1) \div 2 \in 1..K
         /\ \/ n = 2 * ((n + 1) \div 2) - 1 /\ n % 2 = 1
            \/ n = 2 * ((n + 1) \div 2) /\ n % 2 = 0
  OBVIOUS

(* The seeded turns: a question and, under it, its answer.                 *)
LEMMA SeededTurns ==
  ASSUME Init
  PROVE  /\ messages \in Seq(Message) /\ Len(messages) = 2 * Len(SeedOrder)
         /\ \A n \in DOMAIN messages :
              /\ messages[n].parent < n
              /\ messages[n].parent # None =>
                   messages[messages[n].parent].sess = messages[n].sess
              /\ messages[n].sess \in Seeded
              /\ messages[n].text.home = HomeOf[messages[n].sess]
         /\ \A i \in 1..Len(SeedOrder) :
              /\ messages[2 * i - 1].parent = None /\ messages[2 * i].parent = 2 * i - 1
              /\ {n \in DOMAIN messages : messages[n].sess = SeedOrder[i]} = {2 * i - 1, 2 * i}
         /\ \A n \in DOMAIN messages : \E i \in 1..Len(SeedOrder) : messages[n].sess = SeedOrder[i]
<1>. DEFINE K == Len(SeedOrder)
<1>1. /\ SeedOrder \in Seq(Seeded) /\ K \in Nat
      /\ \A i, j \in 1..K : SeedOrder[i] = SeedOrder[j] => i = j
      /\ \A i \in 1..K : SeedOrder[i] \in Seeded
  BY SeedOrderIsOne
<1>2. messages = [n \in 1..(2 * K) |-> SeedRow(n)]
  BY DEF Init
<1>. HIDE DEF K
<1>3. ASSUME NEW n \in 1..(2 * K)
      PROVE  /\ messages[n] \in Message
             /\ messages[n].sess = SeedOrder[(n + 1) \div 2] /\ messages[n].sess \in Seeded
             /\ messages[n].parent = IF n % 2 = 1 THEN None ELSE n - 1
             /\ messages[n].text.home = HomeOf[messages[n].sess]
  <2>. DEFINE s == SeedOrder[(n + 1) \div 2]
  <2>1. (n + 1) \div 2 \in 1..K /\ (n % 2 = 1 \/ n % 2 = 0) /\ n - 1 \in Nat
    BY <1>1, InPairs
  <2>2. s \in Seeded /\ s \in Sessions /\ HomeOf[s] \in Projects
    BY <1>1, <2>1, SessionAssumptions
  <2>. HIDE DEF s
  <2>3. messages[n] = [sess |-> s, parent |-> IF n % 2 = 1 THEN None ELSE n - 1,
          text |-> Text(IF n % 2 = 1 THEN "user" ELSE "assistant", Nobody, HomeOf[s])]
    BY <1>2 DEF SeedRow, s
  <2>4. Text(IF n % 2 = 1 THEN "user" ELSE "assistant", Nobody, HomeOf[s]) \in Texts
        /\ Text(IF n % 2 = 1 THEN "user" ELSE "assistant", Nobody, HomeOf[s]).home = HomeOf[s]
    BY <2>2 DEF Text, Texts
  <2>5. (IF n % 2 = 1 THEN None ELSE n - 1) \in Nat
    BY <2>1 DEF None
  <2>. QED
    BY <2>2, <2>3, <2>4, <2>5 DEF Message, s
<1>4. messages \in Seq(Message) /\ Len(messages) = 2 * K /\ DOMAIN messages = 1..(2 * K)
  <2>1. messages \in [1..(2 * K) -> Message]
    BY <1>2, <1>3
  <2>. QED
    BY <1>1, <2>1
<1>5. ASSUME NEW n \in 1..(2 * K)
      PROVE  /\ messages[n].parent < n
             /\ messages[n].parent # None => messages[messages[n].parent].sess = messages[n].sess
  <2>1. CASE n % 2 = 1
    BY <1>1, <1>3, <2>1 DEF None
  <2>2. CASE n % 2 # 1
    <3>. DEFINE i == (n + 1) \div 2
    <3>1. n = 2 * i /\ i \in 1..K
      BY <1>1, <2>2, InPairs
    <3>2. n - 1 \in 1..(2 * K) /\ ((n - 1) + 1) \div 2 = i
      <4>1. n - 1 \in 1..(2 * K) /\ (n - 1) + 1 = n
        BY <1>1, <3>1
      <4>. QED
        BY <3>1, <4>1
    <3>3. messages[n].parent = n - 1
      BY <1>3, <2>2
    <3>4. messages[n - 1].sess = messages[n].sess
      BY <1>3, <3>2
    <3>. QED
      BY <3>3, <3>4
  <2>. QED
    BY <2>1, <2>2
<1>6. ASSUME NEW i \in 1..K
      PROVE  /\ 2 * i - 1 \in 1..(2 * K) /\ 2 * i \in 1..(2 * K)
             /\ messages[2 * i - 1].parent = None /\ messages[2 * i].parent = 2 * i - 1
             /\ messages[2 * i - 1].sess = SeedOrder[i] /\ messages[2 * i].sess = SeedOrder[i]
  <2>1. /\ 2 * i - 1 \in 1..(2 * K) /\ (2 * i - 1) % 2 = 1 /\ ((2 * i - 1) + 1) \div 2 = i
        /\ 2 * i \in 1..(2 * K) /\ (2 * i) % 2 # 1 /\ ((2 * i) + 1) \div 2 = i
    BY <1>1
  <2>. QED
    BY <1>3, <2>1
<1>7. ASSUME NEW n \in 1..(2 * K), NEW i \in 1..K, messages[n].sess = SeedOrder[i]
      PROVE  n \in {2 * i - 1, 2 * i}
  <2>1. SeedOrder[(n + 1) \div 2] = SeedOrder[i] /\ (n + 1) \div 2 \in 1..K
    BY <1>1, <1>3, <1>7, InPairs
  <2>2. (n + 1) \div 2 = i
    BY <1>1, <2>1
  <2>. QED
    BY <1>1, <2>2, InPairs
<1>8. ASSUME NEW n \in 1..(2 * K) PROVE \E i \in 1..K : messages[n].sess = SeedOrder[i]
  BY <1>1, <1>3, InPairs
<1>. QED
  BY <1>3, <1>4, <1>5, <1>6, <1>7, <1>8 DEF K

(* At the start every session shows its turn, if it has one.               *)
LEMMA SeededIsLinear ==
  ASSUME Init, TypeOK, NEW s \in Sessions
  PROVE  OwnMessage(leaf[s], s) /\ (s \in live => LinearIn(s))
<1>. DEFINE D == {n \in DOMAIN messages : messages[n].sess = s}
            N == Len(messages)
<1>1. /\ leaf[s] = MaxOf(D) /\ N \in Nat /\ DOMAIN messages = 1..N /\ live = Seeded
  <2>1. messages = [n \in 1..(2 * Len(SeedOrder)) |-> SeedRow(n)] /\ live = Seeded
        /\ leaf = [r \in Sessions |-> MaxOf({n \in 1..(2 * Len(SeedOrder)) : SeedRow(n).sess = r})]
    BY DEF Init
  <2>2. {n \in 1..(2 * Len(SeedOrder)) : SeedRow(n).sess = s} = D
    BY <2>1
  <2>3. leaf[s] = MaxOf(D)
    BY <2>1, <2>2
  <2>4. N \in Nat /\ DOMAIN messages = 1..N
    BY DEF TypeOK
  <2>. QED
    BY <2>1, <2>3, <2>4
<1>2. IsTree(messages) /\ BranchOf = Walk(messages, live)
  BY MessagesAreTree, BranchIsWalk
<1>3. CASE D = {}
  <2>1. leaf[s] = None
    BY <1>1, <1>3 DEF MaxOf
  <2>2. BranchOf[None] = << >>
    <3>1. None \in 0..Len(messages)
      BY <1>1 DEF None
    <3>. QED
      BY <1>2, <3>1, WalkStep DEF Onward
  <2>3. Rows(s) = {}
    BY <1>3 DEF Rows
  <2>. QED
    BY <2>1, <2>2, <2>3, EmptyIsLinear DEF OwnMessage, LinearIn
<1>4. CASE D # {}
  <2>1. PICK i \in 1..Len(SeedOrder) : s = SeedOrder[i]
    BY <1>4, SeededTurns
  <2>2. /\ D = {2 * i - 1, 2 * i} /\ i \in Nat \ {0}
        /\ messages[2 * i - 1].parent = None /\ messages[2 * i].parent = 2 * i - 1
    BY <2>1, SeededTurns
  <2>3. leaf[s] \in D /\ \A k \in D : k <= leaf[s]
    <3>1. D \subseteq 0..N
      BY <1>1
    <3>. HIDE DEF D
    <3>. QED
      BY <1>1, <1>4, <3>1, GreatestNumber
  <2>4. leaf[s] = 2 * i /\ 2 * i \in D /\ 2 * i - 1 \in D
    BY <2>2, <2>3
  <2>5. s \in live => BranchOf[2 * i] = Append(Append(<< >>, 2 * i - 1), 2 * i)
    <3>1. /\ 2 * i \in 0..N /\ 2 * i - 1 \in 0..N /\ None \in 0..N
          /\ 2 * i # None /\ 2 * i - 1 # None
          /\ messages[2 * i].sess = s /\ messages[2 * i - 1].sess = s
      BY <1>1, <2>2, <2>4 DEF None
    <3>2. \A n \in 0..N : BranchOf[n] = Onward(messages, live, BranchOf, n)
      BY <1>2, WalkStep
    <3>3. BranchOf[None] = << >>
      BY <3>1, <3>2 DEF Onward
    <3>4. s \in live => BranchOf[2 * i - 1] = Append(BranchOf[None], 2 * i - 1)
      BY <2>2, <3>1, <3>2 DEF Onward
    <3>5. s \in live => BranchOf[2 * i] = Append(BranchOf[2 * i - 1], 2 * i)
      BY <2>2, <3>1, <3>2 DEF Onward
    <3>. QED
      BY <3>3, <3>4, <3>5
  <2>6. ASSUME s \in live PROVE LinearIn(s)
    <3>. DEFINE m == 2 * i - 2
                one == Append(<< >>, m + 1)
    <3>1. m \in Nat /\ m + 1 \in Nat /\ << >> \in Seq(1..m) /\ m + 1 = 2 * i - 1
          /\ (m + 1) + 1 = 2 * i
      BY <2>2
    <3>. HIDE DEF m
    <3>2. Increasing(one) /\ ToSet(one) = {m + 1}
      BY <3>1, EmptyIsLinear, AppendedStaysLinear
    <3>3. one \in Seq(1..(m + 1))
      BY <3>1
    <3>. HIDE DEF one
    <3>4. Increasing(Append(one, 2 * i)) /\ ToSet(Append(one, 2 * i)) = {m + 1, 2 * i}
      <4>1. /\ Increasing(Append(one, (m + 1) + 1))
            /\ ToSet(Append(one, (m + 1) + 1)) = ToSet(one) \cup {(m + 1) + 1}
        BY <3>1, <3>2, <3>3, AppendedStaysLinear
      <4>. QED
        BY <3>1, <3>2, <4>1
    <3>5. BranchOf[leaf[s]] = Append(one, 2 * i)
      BY <2>4, <2>5, <2>6, <3>1 DEF one
    <3>6. Rows(s) = {m + 1, 2 * i}
      BY <2>2, <2>6, <3>1 DEF Rows
    <3>. QED
      BY <3>4, <3>5, <3>6 DEF LinearIn
  <2>. QED
    BY <1>1, <2>4, <2>6 DEF OwnMessage
<1>. QED
  BY <1>3, <1>4

(* The invariant holds at the start.                                       *)
LEMMA InitHolds == ASSUME Init PROVE SessionInv
<1>1. /\ live = Seeded /\ raced = {} /\ branched = {} /\ faults = 0
      /\ project = [s \in Sessions |-> IF s \in Seeded THEN HomeOf[s] ELSE NoProject]
      /\ summary = [s \in Sessions |-> NoSummary]
      /\ through = [s \in Sessions |-> 0]
      /\ call = [c \in Calls |-> Idle] /\ compaction = [c \in Calls |-> NoCompaction]
  BY DEF Init
<1>2. /\ messages \in Seq(Message) /\ Len(messages) \in Nat /\ DOMAIN messages = 1..Len(messages)
      /\ \A n \in DOMAIN messages :
           /\ messages[n].parent < n
           /\ messages[n].parent # None => messages[messages[n].parent].sess = messages[n].sess
           /\ messages[n].sess \in Seeded
           /\ messages[n].text.home = HomeOf[messages[n].sess]
  BY SeededTurns
<1>3. TypeOK
  <2>1. ASSUME NEW s \in Sessions
        PROVE  MaxOf({n \in 1..(2 * Len(SeedOrder)) : SeedRow(n).sess = s}) \in 0..Len(messages)
    <3>. DEFINE D == {n \in 1..(2 * Len(SeedOrder)) : SeedRow(n).sess = s}
    <3>1. Len(messages) = 2 * Len(SeedOrder)
      BY SeededTurns
    <3>2. D \subseteq 1..Len(messages)
      BY <3>1
    <3>. HIDE DEF D
    <3>3. D \subseteq 0..Len(messages) /\ Len(messages) \in Nat
      BY <1>2, <3>2
    <3>4. D = {} => MaxOf(D) = 0
      BY DEF MaxOf, None
    <3>5. D # {} => MaxOf(D) \in D
      BY <3>3, GreatestNumber
    <3>6. MaxOf(D) \in 0..Len(messages)
      <4>1. 0 \in 0..Len(messages)
        BY <3>3
      <4>2. MaxOf(D) = 0 \/ MaxOf(D) \in D
        BY <3>4, <3>5
      <4>. QED
        BY <3>3, <4>1, <4>2, Zenon
    <3>. QED
      BY <3>6 DEF D
  <2>2. leaf \in [Sessions -> 0..Len(messages)]
    BY <2>1 DEF Init
  <2>3. /\ live \subseteq Sessions /\ project \in [Sessions -> Projects \cup {NoProject}]
        /\ through \in [Sessions -> 0..Len(messages)] /\ faults \in 0..MaxFaults
    BY <1>1, <1>2, SessionAssumptions
  <2>4. summary \in [Sessions -> [kind : {"none", "handoff", "digest"}, of : SUBSET Nat]]
    BY <1>1 DEF NoSummary
  <2>5. call \in [Calls -> Call] /\ compaction \in [Calls -> Compaction]
    BY <1>1, IdleTyped, NoCompactionTyped
  <2>. QED
    BY <1>1, <1>2, <2>2, <2>3, <2>4, <2>5 DEF TypeOK
<1>4. Homes
  <2>1. \A s \in Sessions : OwnMessage(leaf[s], s)
    BY <1>3, SeededIsLinear
  <2>2. \A s \in live : project[s] # NoProject
    BY <1>1, SessionAssumptions
  <2>3. \A n \in DOMAIN messages : messages[n].text.home = project[messages[n].sess]
    BY <1>1, <1>2, SessionAssumptions
  <2>. QED
    BY <2>1, <2>2, <2>3 DEF Homes
<1>5. CallsOK /\ CopiesOK
  <2>1. \A c \in Calls : call[c] = Idle /\ compaction[c] = NoCompaction
    BY <1>1
  <2>. QED
    BY <2>1 DEF CallsOK, CallOK, CopiesOK, CopyOK, Idle, NoCompaction
<1>6. LinearHistory
  BY <1>1, <1>3, SeededIsLinear, LinearByOne, SessionAssumptions
<1>7. DigestOK
  BY <1>1, <1>2 DEF DigestOK, NoSummary, NoCompaction
<1>. QED
  BY <1>3, <1>4, <1>5, <1>6, <1>7 DEF SessionInv

(* Every step keeps it, and it holds throughout.                           *)
THEOREM SessionsHold == Spec => []SessionInv
<1>1. Init => SessionInv
  BY InitHolds
<1>2. SessionInv /\ [Next]_vars => SessionInv'
  <2>1. ASSUME SessionInv, Next PROVE SessionInv'
    BY <2>1, CallStepKeeps, DeleteSessionKeeps DEF Next
  <2>2. ASSUME SessionInv, UNCHANGED vars PROVE SessionInv'
    <3>1. UNCHANGED <<messages, live, project, leaf, summary, through, call, compaction,
                      raced, branched, faults>>
      BY <2>2 DEF vars
    <3>2. BranchOf' = BranchOf
      BY <3>1 DEF BranchOf
    <3>3. TypeOK'
      BY <2>2, <3>1 DEF SessionInv, TypeOK
    <3>4. Homes' /\ CallsOK'
      BY <2>2, <3>1 DEF SessionInv, Homes, OwnMessage, CallsOK, CallOK
    <3>5. LinearHistory' /\ CopiesOK'
      BY <2>2, <3>1, <3>2 DEF SessionInv, LinearHistory, CopiesOK, CopyOK, Alone, Rows, TextsOf
    <3>6. DigestOK'
      BY <2>2, <3>1 DEF SessionInv, DigestOK, UpTo, Rows
    <3>. QED
      BY <3>3, <3>4, <3>5, <3>6 DEF SessionInv
  <2>. QED
    BY <2>1, <2>2
<1>. QED
  BY <1>1, <1>2, PTL DEF Spec

(* A conversation nobody branched, and no two appends raced in, is every   *)
(* message of its session in the order of their ids, through failed        *)
(* appends, forks, deleted neighbours and however many calls.              *)
THEOREM HistoryIsLinear == Spec => []LinearHistory
<1>1. SessionInv => LinearHistory
  BY DEF SessionInv
<1>. QED
  BY <1>1, SessionsHold, PTL

(* A fork nobody joins is a copy, in order, of what was appended of it: a  *)
(* failed append loses one message and never the ones before.              *)
THEOREM ForksAreInOrder == Spec => []ForkKeepsOrder
<1>1. SessionInv => ForkKeepsOrder
  BY DEF SessionInv, CopiesOK, CopyOK, Alone, ForkKeepsOrder
<1>. QED
  BY <1>1, SessionsHold, PTL

(* What a session holds and what its branch shows is of its own project,   *)
(* whatever sessions callers of other projects name.                       *)
THEOREM ProjectsAreApart == Spec => []NoContentCrossesProjects
<1>1. SessionInv => NoContentCrossesProjects
  <2>1. ASSUME SessionInv, NEW s \in live, NEW n \in Rows(s) \cup ToSet(BranchOf[leaf[s]])
        PROVE  messages[n].text.home = project[s]
    <3>1. TypeOK /\ Homes /\ s \in Sessions /\ leaf[s] \in 0..Len(messages)
          /\ OwnMessage(leaf[s], s)
      BY <2>1 DEF SessionInv, TypeOK, Homes
    <3>2. n \in DOMAIN messages /\ messages[n].sess = s
      <4>1. CASE n \in Rows(s)
        BY <4>1 DEF Rows
      <4>2. CASE n \in ToSet(BranchOf[leaf[s]])
        <5>1. leaf[s] # None
          <6>1. leaf[s] = None => BranchOf[leaf[s]] = << >>
            BY <3>1, MessagesAreTree, WalkStep, BranchIsWalk DEF Onward
          <6>. QED
            BY <4>2, <6>1, EmptyIsLinear
        <5>. QED
          BY <3>1, <4>2, <5>1, BranchIsInside DEF OwnMessage
      <4>. QED
        BY <4>1, <4>2
    <3>. QED
      BY <3>1, <3>2 DEF Homes
  <2>. QED
    BY <2>1 DEF NoContentCrossesProjects
<1>. QED
  BY <1>1, SessionsHold, PTL

(* A digest is of every message up to summary_through, whatever was        *)
(* appended and compacted while the model was summarising.                 *)
THEOREM DigestsAreComplete == Spec => []DigestCoversThrough
<1>1. SessionInv => DigestCoversThrough
  BY DEF SessionInv, TypeOK, DigestOK, UpTo, DigestCoversThrough
<1>. QED
  BY <1>1, SessionsHold, PTL

=============================================================================
