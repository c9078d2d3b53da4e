---------------------------- MODULE SessionTree ----------------------------
(***************************************************************************)
(* The chat sessions of swarm/sessions.py: the tree of messages, its       *)
(* current leaf, forks of a branch and the summary column, under the       *)
(* endpoints of api/server.py that call them at once.  Every transaction   *)
(* of the source is one step; what lies between two transactions of one    *)
(* call is open to every other call.  A message id is its position in      *)
(* messages; the rows of a deleted session count as gone (ON DELETE        *)
(* CASCADE).                                                               *)
(***************************************************************************)
EXTENDS Naturals, Sequences, FiniteSets, SequencesExt

CONSTANTS Sessions, Projects, Calls,
          Streams,        \* the calls that come over /stream
          Seeded,         \* sessions that hold one finished turn at the start
          HomeOf,         \* the project of a seeded session
          Window, Threshold,   \* config.session_window, config.compact_threshold
          MaxFaults       \* bound on failing transactions

None == 0                 \* NULL for a message id
Nobody == "nobody"        \* the author of a seeded turn
NoProject == "no project" \* the project of a session that does not exist yet

ASSUME SessionAssumptions ==
  /\ Streams \subseteq Calls /\ Seeded \subseteq Sessions
  /\ IsFiniteSet(Seeded) /\ HomeOf \in [Seeded -> Projects] /\ NoProject \notin Projects
  /\ None \notin Sessions
  /\ Window \in Nat \ {0} /\ Threshold \in Nat /\ MaxFaults \in Nat

VARIABLES
  messages,   \* session_messages: parent, session, text; the index is the id
  live,       \* the chat_sessions rows that exist
  project,    \* project_id of a session
  leaf,       \* current_leaf_id
  summary,    \* the summary column: its kind and the messages a digest is of
  through,    \* summary_through
  call,       \* where each call stands
  compaction, \* the fire-and-forget compaction task of a call
  raced,      \* history: sessions a message was hung under an outdated leaf in
  branched,   \* history: sessions whose leaf was set by /branch
  faults

vars == <<messages, live, project, leaf, summary, through, call, compaction,
          raced, branched, faults>>
tree == <<messages, live, project, leaf, summary, through, raced, branched>>

Text(role, author, home) == [role |-> role, author |-> author, home |-> home]
Texts == [role: {"user", "assistant"}, author: Calls \cup {Nobody}, home: Projects]
NoSummary == [kind |-> "none", of |-> {}]
Idle == [op |-> "none", at |-> "idle", sess |-> None, home |-> NoProject,
         parent |-> None, todo |-> <<>>, done |-> <<>>, handoff |-> "none"]
NoCompaction == [at |-> "none", through |-> 0, of |-> {}]

MaxOf(S) == IF S = {} THEN None ELSE CHOOSE n \in S : \A k \in S : k <= n

(* The rows of a session; their ids are in the order they were written in. *)
Rows(s) == {n \in DOMAIN messages : messages[n].sess = s /\ s \in live}

(* get_branch_history: from a message to its root by parent_message_id,    *)
(* returned oldest first.  The query joins on ids only, never on sessions. *)
BranchOf[n \in 0..Len(messages)] ==
  IF n = None \/ messages[n].sess \notin live THEN << >>
  ELSE Append(BranchOf[messages[n].parent], n)
TextsOf(ids) == [k \in DOMAIN ids |-> messages[ids[k]].text]

BugAuthorized(s, p) == s \in live /\ p \in Projects
(* _authorize_session_access for a caller that names its project. *)
Authorized(s, p) == s \in live /\ project[s] = p
Fresh(s) == s \notin live /\ project[s] = NoProject

-----------------------------------------------------------------------------
SeedOrder == SetToSeq(Seeded)
SeedRow(n) ==
  LET s == SeedOrder[(n + 1) \div 2]
  IN [sess |-> s, parent |-> IF n % 2 = 1 THEN None ELSE n - 1,
      text |-> Text(IF n % 2 = 1 THEN "user" ELSE "assistant", Nobody, HomeOf[s])]

Init ==
  /\ messages = [n \in 1..(2 * Len(SeedOrder)) |-> SeedRow(n)]
  /\ live = Seeded
  /\ project = [s \in Sessions |-> IF s \in Seeded THEN HomeOf[s] ELSE NoProject]
  /\ leaf = [s \in Sessions |->
               MaxOf({n \in 1..(2 * Len(SeedOrder)) : SeedRow(n).sess = s})]
  /\ summary = [s \in Sessions |-> NoSummary]
  /\ through = [s \in Sessions |-> 0]
  /\ call = [c \in Calls |-> Idle]
  /\ compaction = [c \in Calls |-> NoCompaction]
  /\ raced = {} /\ branched = {} /\ faults = 0

Fault == faults < MaxFaults /\ faults' = faults + 1

(* create_session: on an error the id is returned all the same, without a row. *)
CreateSession(s, p) ==
  /\ Fresh(s)
  /\ project' = [project EXCEPT ![s] = p]
  /\ \/ live' = live \cup {s} /\ UNCHANGED faults
     \/ Fault /\ UNCHANGED live

-----------------------------------------------------------------------------
(* append_message.  Its first transaction step reads the current leaf when *)
(* no parent is passed; the INSERT and the UPDATE of the leaf commit       *)
(* together.  None is returned, and nothing is kept, when it fails.        *)
ReadLeaf(c) ==
  /\ call[c].at = "read"
  /\ LET s == call[c].sess
     IN call' = [call EXCEPT ![c].at = "insert",
                             ![c].parent = IF s \in live THEN leaf[s] ELSE None]
  /\ UNCHANGED <<tree, compaction, faults>>

BugNewLeaf(s, id) == [leaf EXCEPT ![s] = IF @ = None THEN id ELSE @]
NewLeaf(s, id) == [leaf EXCEPT ![s] = id]

Inserted(c, text) ==
  LET s == call[c].sess
  IN /\ s \in live
     /\ messages' = Append(messages,
                           [sess |-> s, parent |-> call[c].parent, text |-> text])
     /\ leaf' = NewLeaf(s, Len(messages) + 1)
     /\ raced' = IF call[c].parent = leaf[s] THEN raced ELSE raced \cup {s}
     /\ UNCHANGED <<live, project, summary, through, branched, faults>>

NotInserted(c) ==
  /\ \/ call[c].sess \notin live /\ UNCHANGED faults   \* foreign key
     \/ Fault
  /\ UNCHANGED tree

-----------------------------------------------------------------------------
(* /run and /stream: the session is resolved, the worker runs, and the two *)
(* messages of the turn are appended when it has answered.                 *)
Chat(c, s, p) ==
  /\ call[c].at = "idle"
  /\ \/ Authorized(s, p) /\ UNCHANGED <<live, project, faults>>
     \/ CreateSession(s, p)
  /\ call' = [call EXCEPT ![c] = [Idle EXCEPT !.op = "chat", !.at = "running",
                                              !.sess = s, !.home = p]]
  /\ UNCHANGED <<messages, leaf, summary, through, compaction, raced, branched>>

(* The worker schedules save_handoff_summary and answers; it may end       *)
(* before the task has run.  Only a streamed answer reaches the API while  *)
(* the worker is still alive.                                              *)
WorkerAnswers(c) ==
  /\ call[c].op = "chat" /\ call[c].at = "running"
  /\ \E handoff \in (IF c \in Streams THEN {"due"} ELSE {"saved", "lost"}) :
       /\ call' = [call EXCEPT ![c].at = "read", ![c].handoff = handoff,
                     ![c].todo = <<Text("user", c, call[c].home),
                                   Text("assistant", c, call[c].home)>>]
       /\ summary' = IF handoff = "saved" /\ call[c].sess \in live
                     THEN [summary EXCEPT ![call[c].sess] = [kind |-> "handoff", of |-> {}]]
                     ELSE summary
  /\ UNCHANGED <<messages, live, project, leaf, through, compaction, raced,
                 branched, faults>>

SaveHandoff(c) ==
  /\ call[c].handoff = "due"
  /\ call' = [call EXCEPT ![c].handoff = "saved"]
  /\ summary' = IF call[c].sess \in live
                THEN [summary EXCEPT ![call[c].sess] = [kind |-> "handoff", of |-> {}]]
                ELSE summary
  /\ UNCHANGED <<messages, live, project, leaf, through, compaction, raced,
                 branched, faults>>

(* No answer: the client has left or the worker failed, nothing is appended. *)
WorkerFails(c) ==
  /\ call[c].op = "chat" /\ call[c].at = "running"
  /\ call' = [call EXCEPT ![c].at = "over"]
  /\ UNCHANGED <<tree, compaction, faults>>

AppendTurn(c) ==
  /\ call[c].op = "chat" /\ call[c].at = "insert"
  /\ Inserted(c, Head(call[c].todo)) \/ NotInserted(c)
  /\ call' = [call EXCEPT ![c].todo = Tail(@),
                          ![c].at = IF Len(call[c].todo) = 1 THEN "count" ELSE "read"]
  /\ UNCHANGED compaction

(* The refreshed message count decides whether a compaction is started. *)
CountTurn(c) ==
  /\ call[c].at = "count"
  /\ call' = [call EXCEPT ![c].at = "over"]
  /\ compaction' = IF call[c].sess \in live /\ Cardinality(Rows(call[c].sess)) >= Threshold
                   THEN [compaction EXCEPT ![c].at = "session"] ELSE compaction
  /\ UNCHANGED <<tree, faults>>

-----------------------------------------------------------------------------
(* compact_session: three transactions and the call of the router model    *)
(* between the second and the third.                                       *)
CompactReadSession(c) ==
  LET s == call[c].sess
  IN /\ compaction[c].at = "session"
     /\ compaction' = [compaction EXCEPT ![c] =
          IF s \in live THEN [at |-> "messages", through |-> through[s], of |-> {}]
          ELSE NoCompaction]
     /\ UNCHANGED <<tree, call, faults>>

(* All rows but the last Window. *)
ToCompact(s) == {n \in Rows(s) : Cardinality({k \in Rows(s) : n < k}) >= Window}

CompactReadMessages(c) ==
  LET old == ToCompact(call[c].sess)
  IN /\ compaction[c].at = "messages"
     /\ compaction' = [compaction EXCEPT ![c] =
          IF old # {} /\ compaction[c].through < MaxOf(old)
          THEN [at |-> "summarise", through |-> MaxOf(old), of |-> old]
          ELSE NoCompaction]
     /\ UNCHANGED <<tree, call, faults>>

BugCovered(c) == MaxOf(Rows(call[c].sess))
Covered(c) == compaction[c].through

CompactWrite(c) ==
  LET s == call[c].sess
  IN /\ compaction[c].at = "summarise"
     /\ compaction' = [compaction EXCEPT ![c] = NoCompaction]
     /\ \/ /\ s \in live
           /\ summary' = [summary EXCEPT ![s] = [kind |-> "digest", of |-> compaction[c].of]]
           /\ through' = [through EXCEPT ![s] = Covered(c)]
           /\ UNCHANGED faults
        \/ ((s \notin live /\ UNCHANGED faults) \/ Fault) /\ UNCHANGED <<summary, through>>
     /\ UNCHANGED <<messages, live, project, leaf, raced, branched, call>>

-----------------------------------------------------------------------------
BugNextCopy(todo, parent) == IF todo = <<>> THEN "over" ELSE "insert"
(* /fork: the current branch is read, a session is created and the texts   *)
(* are appended one by one, each under the result of the append before it; *)
(* the result None of a failed append means "the current leaf" to the next *)
(* one.                                                                    *)
NextCopy(todo, parent) == IF todo = <<>> THEN "over"
                          ELSE IF parent = None THEN "read" ELSE "insert"

Fork(c, s, p) ==
  /\ call[c].at = "idle"
  /\ Authorized(s, p)
  /\ BranchOf[leaf[s]] # <<>>
  /\ \E new \in Sessions :
       /\ CreateSession(new, p)
       /\ call' = [call EXCEPT ![c] = [Idle EXCEPT !.op = "fork", !.at = "read",
                     !.sess = new, !.home = p, !.todo = TextsOf(BranchOf[leaf[s]])]]
  /\ UNCHANGED <<messages, leaf, summary, through, compaction, raced, branched>>

AppendCopy(c) ==
  /\ call[c].op = "fork" /\ call[c].at = "insert"
  /\ \/ /\ Inserted(c, Head(call[c].todo))
        /\ call' = [call EXCEPT ![c].todo = Tail(@), ![c].parent = Len(messages) + 1,
                      ![c].done = Append(@, Head(call[c].todo)),
                      ![c].at = NextCopy(Tail(call[c].todo), Len(messages) + 1)]
     \/ /\ NotInserted(c)
        /\ call' = [call EXCEPT ![c].todo = Tail(@), ![c].parent = None,
                      ![c].at = NextCopy(Tail(call[c].todo), None)]
  /\ UNCHANGED compaction

-----------------------------------------------------------------------------
BugInTree(s, m) == m \in DOMAIN messages /\ messages[m].sess \in live
(* /branch: the target is looked up in the tree of the session, and the    *)
(* leaf goes to its parent in a later transaction.                         *)
InTree(s, m) == m \in Rows(s)

BranchRead(c, s, m) ==
  /\ call[c].at = "idle"
  /\ s \in live /\ InTree(s, m)
  /\ call' = [call EXCEPT ![c] = [Idle EXCEPT !.op = "branch", !.at = "set", !.sess = s,
                                              !.parent = messages[m].parent]]
  /\ UNCHANGED <<tree, compaction, faults>>

BranchSet(c) ==
  LET s == call[c].sess
  IN /\ call[c].at = "set"
     /\ call' = [call EXCEPT ![c].at = "over"]
     /\ IF s \in live
        THEN leaf' = NewLeaf(s, call[c].parent) /\ branched' = branched \cup {s}
        ELSE UNCHANGED <<leaf, branched>>
     /\ UNCHANGED <<messages, live, project, summary, through, compaction, raced, faults>>

(* delete_session and _cleanup_expired, whoever calls them. *)
DeleteSession(s) ==
  /\ s \in live
  /\ live' = live \ {s}
  /\ UNCHANGED <<messages, project, leaf, summary, through, call, compaction,
                 raced, branched, faults>>

CallStep(c) ==
  \/ \E s \in Sessions, p \in Projects : Chat(c, s, p) \/ Fork(c, s, p)
  \/ \E s \in Sessions : \E m \in DOMAIN messages : BranchRead(c, s, m)
  \/ ReadLeaf(c) \/ WorkerAnswers(c) \/ SaveHandoff(c) \/ WorkerFails(c)
  \/ AppendTurn(c) \/ CountTurn(c) \/ AppendCopy(c) \/ BranchSet(c)
  \/ CompactReadSession(c) \/ CompactReadMessages(c) \/ CompactWrite(c)

Next == (\E c \in Calls : CallStep(c)) \/ (\E s \in Sessions : DeleteSession(s))

Spec == Init /\ [][Next]_vars

-----------------------------------------------------------------------------
Message == [sess : Sessions, parent : Nat, text : Texts]
Call == [op : {"none", "chat", "fork", "branch"},
         at : {"idle", "running", "read", "insert", "count", "set", "over"},
         sess : Sessions \cup {None}, home : Projects \cup {NoProject}, parent : Nat,
         todo : Seq(Texts), done : Seq(Texts), handoff : {"none", "due", "saved", "lost"}]
Compaction == [at : {"none", "session", "messages", "summarise"}, through : Nat, of : SUBSET Nat]

(* Types, and the shape of the tree: a parent is an older message of the   *)
(* same session, so the recursive walk of get_branch_history ends.         *)
TypeOK ==
  /\ messages \in Seq(Message)
  /\ \A n \in DOMAIN messages :
       /\ messages[n].parent < n
       /\ messages[n].parent # None =>
            messages[messages[n].parent].sess = messages[n].sess
  /\ live \subseteq Sessions /\ project \in [Sessions -> Projects \cup {NoProject}]
  /\ leaf \in [Sessions -> 0..Len(messages)] /\ through \in [Sessions -> 0..Len(messages)]
  /\ summary \in [Sessions -> [kind : {"none", "handoff", "digest"}, of : SUBSET Nat]]
  /\ call \in [Calls -> Call] /\ compaction \in [Calls -> Compaction]
  /\ raced \subseteq Sessions /\ branched \subseteq Sessions /\ faults \in 0..MaxFaults

(* append_message promises the linear history when branching is never      *)
(* used: the current branch is every message of the session in the order   *)
(* of its ids, through failed appends, forks and deleted neighbours.  The  *)
(* only way out is an append under a leaf that another append has moved    *)
(* since it was read.                                                      *)
LinearHistory ==
  \A s \in live \ (raced \cup branched) :
    LET branch == BranchOf[leaf[s]]
    IN /\ ToSet(branch) = Rows(s)
       /\ \A i, j \in DOMAIN branch : i < j => branch[i] < branch[j]

(* What fork_session has copied, in the order of the source, is the        *)
(* current branch of the copy as long as no other call uses it: a failed   *)
(* append loses its own message, never the ones before it.                 *)
ForkKeepsOrder ==
  \A c \in Calls :
    LET s == call[c].sess
    IN /\ call[c].op = "fork" /\ s \in live
       /\ \A d \in Calls \ {c} : call[d].sess # s
       => TextsOf(BranchOf[leaf[s]]) = call[c].done

(* The conversation a coordinator is given, and every row a session keeps, *)
(* comes from the project the session belongs to, whatever sessions the    *)
(* callers of other projects name (_authorize_session_access, /fork,       *)
(* /branch).                                                               *)
NoContentCrossesProjects ==
  \A s \in live : \A n \in Rows(s) \cup ToSet(BranchOf[leaf[s]]) :
    messages[n].text.home = project[s]

(* A digest is of every message up to summary_through, which is what the   *)
(* next compaction takes it for, although messages are appended and other  *)
(* compactions finish while the model is summarising.                      *)
DigestCoversThrough ==
  \A s \in live : summary[s].kind = "digest" =>
    summary[s].of = {n \in Rows(s) : n <= through[s]}

=============================================================================
