--------------------------- MODULE StagedActions ---------------------------
(***************************************************************************)
(* Writes to external platforms: tools/integrations of hive-mcp, with the  *)
(* routes of its main.py and the prompt of cli/hive.  A tool stages its    *)
(* action as a file, a user who sees the file confirms or rejects it, and  *)
(* the server then executes it; without review a tool executes at once.    *)
(* The routes run on the event loop and hold it for as long as they take,  *)
(* tools run on threads of a pool.  The action followed here to its end is *)
(* replace_section of notion.py, the one that deletes: several requests to *)
(* a page, each of which may fail, with or without having taken effect.    *)
(* All actions replace one section, by texts of Batches requests each.     *)
(***************************************************************************)
EXTENDS Naturals, Sequences, FiniteSets, SequencesExt

CONSTANTS
  Users,      \* prompts of cli/hive, over one project directory
  Agents,     \* tool calls of agents
  Actions,
  Headed,     \* those whose text begins with the heading of the section
  Batches,    \* requests a text takes, 100 blocks each
  MaxFaults, MaxDeaths   \* bounds: failures and odd answers of requests, restarts

Callers == Users \cup Agents
Nobody == "nobody"

ASSUME StagedAssumption ==
  /\ Users \cap Agents = {} /\ Headed \subseteq Actions
  /\ {"old", "rest"} \cap Callers = {}
  /\ Batches \in Nat \ {0} /\ {MaxFaults, MaxDeaths} \subseteq Nat

VARIABLES
  review,  \* WRITE_REVIEW, fixed when the server starts
  staged,  \* .hive_pending_actions: the actions that have a file
  made,    \* the actions that ever had one
  page,    \* the blocks, each [of, n]: the n-th piece of the text of a caller
  call,    \* per caller: where it stands, its action, the blocks it has read,
           \* the block to insert after, how many pieces are in, or deleted,
           \* what the executor returns
  told,    \* what the caller has been answered
  began,   \* the callers that executed something
  cut,     \* those whose execution did not come to the end of confirm_action
  strayed, \* those that went on after a block other than the one just inserted
  faults, deaths

history == <<began, cut, strayed>>
vars == <<review, staged, made, page, call, told, history, faults, deaths>>

Block(t, n) == [of |-> t, n |-> n]
OldText == <<Block("old", 1), Block("old", 2)>>

Idle == [at |-> "idle", action |-> Nobody, seen |-> <<>>,
         after |-> Block("old", 1), done |-> 0, result |-> "done"]

(* A piece stands for its blocks: the first one of a headed text starts    *)
(* with the heading, the others are body.                                  *)
IsHeading(b) ==
  b.n = 1 /\ (b.of = "old" \/ (b.of \in Callers /\ call[b.of].action \in Headed))

HeadingsOf(p) == {i \in DOMAIN p : IsHeading(p[i])}

(* The section from its heading to the next one, here that of the rest.    *)
Section(p) ==
  LET first == CHOOSE i \in HeadingsOf(p) : TRUE
      end == CHOOSE i \in DOMAIN p : p[i].of = "rest"
  IN  SubSeq(p, first, end - 1)

(* A block has an id: it is found on the page, or it is not there.         *)
OnPage(b) == \E i \in DOMAIN page : page[i] = b
PlaceOf(b) == CHOOSE i \in DOMAIN page : page[i] = b

(* The page with a block put after another, and without one.               *)
PutAfter(b, new) == InsertAt(page, PlaceOf(b) + 1, new)
Trashed(b) == IF OnPage(b) THEN RemoveAt(page, PlaceOf(b)) ELSE page

At(c, where) == call[c].at = where
Executing(c) == call[c].at \in {"read", "insert", "delete", "unlink"}
LoopFree == \A u \in Users : ~Executing(u)

(* A plausible slip: the handlers hand confirm_action to the pool.         *)
BugMayRun(c) == TRUE

(* Whether c gets a turn: the handlers of the two routes never await once  *)
(* they have read the request.                                             *)
MayRun(c) == c \in Users => LoopFree

(* A plausible slip: the section is emptied before it is filled again.     *)
BugAfter(where) ==
  [read |-> "delete", delete |-> "insert", insert |-> "unlink"][where]

(* What an execution does next: the new text is in before the old is       *)
(* deleted, and the file goes when the executor has returned.              *)
After(where) ==
  [read |-> "insert", insert |-> "delete", delete |-> "unlink"][where]

(* What the next piece may come after: the last block that the answer to   *)
(* the request names.  "results" may name none, and then it is what it was *)
(* before, or "echo more objects than blocks created".                     *)
Chained(new) == IF new.n = Batches THEN {new} ELSE {new} \cup Range(page)

Init ==
  /\ review \in BOOLEAN
  /\ staged = {} /\ made = {}
  /\ page = OldText \o <<Block("rest", 1)>>
  /\ call = [c \in Callers |-> Idle]
  /\ told = [c \in Callers |-> ""]
  /\ began = {} /\ cut = {} /\ strayed = {} /\ faults = 0 /\ deaths = 0

(* _stage_action, called by a tool of an agent.                            *)
Stage(a) ==
  /\ review /\ a \notin made
  /\ made' = made \cup {a} /\ staged' = staged \cup {a}
  /\ UNCHANGED <<review, page, call, told, history, faults, deaths>>

(* _prompt_confirm_action shows an action whose file is there.             *)
Prompt(u) ==
  \E a \in staged :
    /\ At(u, "idle")
    /\ call' = [call EXCEPT ![u] = [Idle EXCEPT !.at = "prompt", !.action = a]]
    /\ UNCHANGED <<review, staged, made, page, told, history, faults, deaths>>

Choose(u) ==
  /\ At(u, "prompt")
  /\ \E next \in {"posted", "rejecting", "over"} :
       call' = [call EXCEPT ![u].at = next]
  /\ UNCHANGED <<review, staged, made, page, told, history, faults, deaths>>

(* An agent calls confirm_action, or without review the tool itself, which *)
(* executes with no file behind it.  The event loop hands it to a thread.  *)
ToolCall(g) ==
  /\ At(g, "idle") /\ LoopFree
  /\ \/ /\ review
        /\ \E a \in made :
             call' = [call EXCEPT ![g] = [Idle EXCEPT !.at = "posted", !.action = a]]
        /\ UNCHANGED began
     \/ /\ ~review
        /\ \E a \in Actions :
             call' = [call EXCEPT ![g] = [Idle EXCEPT !.at = "read", !.action = a]]
        /\ began' = began \cup {g}
  /\ UNCHANGED <<review, staged, made, page, told, cut, strayed, faults, deaths>>

(* An agent calls reject_action.                                           *)
AgentRejects(g) ==
  /\ At(g, "idle") /\ LoopFree
  /\ \E a \in made :
       /\ staged' = staged \ {a}
       /\ call' = [call EXCEPT ![g].at = "over"]
  /\ UNCHANGED <<review, made, page, told, history, faults, deaths>>

Answered(c, what) ==
  told' = [told EXCEPT ![c] = IF @ = "" THEN what ELSE @]

(* The beginning of confirm_action: the file is looked for and read.       *)
Begin(c) ==
  /\ At(c, "posted") /\ MayRun(c)
  /\ LET there == call[c].action \in staged IN
     /\ call' = [call EXCEPT ![c].at = IF there THEN "read" ELSE "over"]
     /\ began' = IF there THEN began \cup {c} ELSE began
     /\ IF there THEN UNCHANGED told ELSE Answered(c, "not found")
  /\ UNCHANGED <<review, staged, made, page, cut, strayed, faults, deaths>>

(* The CLI waits 30 seconds for the answer, and says that it failed.       *)
GiveUp(u) ==
  /\ At(u, "posted") \/ Executing(u)
  /\ told[u] = "" /\ told' = [told EXCEPT ![u] = "failed"]
  /\ UNCHANGED <<review, staged, made, page, call, history, faults, deaths>>

(* A plausible slip: the error of a request is swallowed.                  *)
BugFailed(c) == call' = [call EXCEPT ![c].at = "unlink"]

(* The executor returns the text of an error.                              *)
Failed(c) ==
  call' = [call EXCEPT ![c].at = "unlink", ![c].result = "failed"]

(* The blocks of the page are read, and the section is found by its        *)
(* heading, unless two headings match or none.                             *)
ReadPage(c) ==
  /\ At(c, "read")
  /\ IF Cardinality(HeadingsOf(page)) = 1
     THEN call' = [call EXCEPT ![c].at = After("read"), ![c].seen = Section(page),
                               ![c].after = Last(Section(page))]
     ELSE Failed(c)
  /\ UNCHANGED <<review, staged, made, page, told, history, faults, deaths>>

(* One request that inserts a piece; the block it is to come after may be  *)
(* gone.                                                                   *)
Insert(c) ==
  LET r == call[c]
      new == Block(c, r.done + 1)
  IN /\ At(c, "insert")
     /\ IF ~OnPage(r.after) THEN Failed(c) /\ UNCHANGED <<page, strayed, faults>>
        ELSE \E last \in Chained(new) :
             /\ page' = PutAfter(r.after, new)
             /\ IF last = new THEN UNCHANGED <<strayed, faults>>
                ELSE /\ faults < MaxFaults /\ faults' = faults + 1
                     /\ strayed' = strayed \cup {c}
             /\ call' = [call EXCEPT ![c] =
                  [r EXCEPT !.after = last,
                            !.done = IF new.n = Batches THEN 0 ELSE new.n,
                            !.at = IF new.n = Batches THEN After("insert") ELSE @]]
     /\ UNCHANGED <<review, staged, made, told, began, cut, deaths>>

(* One request that trashes a block of the section as it was read; one     *)
(* that is in the trash already may be refused.                            *)
Delete(c) ==
  LET r == call[c]
      old == r.seen[r.done + 1]
      end == r.done + 1 = Len(r.seen)
  IN /\ At(c, "delete")
     /\ page' = Trashed(old)
     /\ \/ call' = [call EXCEPT ![c] =
               [r EXCEPT !.done = IF end THEN 0 ELSE @ + 1,
                         !.at = IF end THEN After("delete") ELSE @]]
        \/ ~OnPage(old) /\ Failed(c)
     /\ UNCHANGED <<review, staged, made, told, history, faults, deaths>>

(* A request fails, whether or not the platform has carried it out.        *)
RequestFails(c) ==
  /\ call[c].at \in {"read", "insert", "delete"} /\ faults < MaxFaults
  /\ Failed(c) /\ faults' = faults + 1
  /\ \/ UNCHANGED page
     \/ /\ At(c, "insert") /\ OnPage(call[c].after)
        /\ page' = PutAfter(call[c].after, Block(c, call[c].done + 1))
     \/ /\ At(c, "delete")
        /\ page' = Trashed(call[c].seen[call[c].done + 1])
  /\ UNCHANGED <<review, staged, made, told, history, deaths>>

(* The end of confirm_action: the file goes whatever the executor has      *)
(* returned.  When it cannot be removed the answer is a failure.           *)
Unlink(c) ==
  /\ At(c, "unlink")
  /\ call' = [call EXCEPT ![c].at = "over"]
  /\ \/ /\ staged' = staged \ {call[c].action}
        /\ Answered(c, call[c].result)
        /\ UNCHANGED <<review, cut, faults>>
     \/ /\ review /\ faults < MaxFaults /\ faults' = faults + 1
        /\ Answered(c, "failed") /\ cut' = cut \cup {c}
        /\ UNCHANGED staged
  /\ UNCHANGED <<review, made, page, began, strayed, deaths>>

(* POST /actions/reject, best effort: it gets its turn or it does not.     *)
RejectServed(u) ==
  /\ At(u, "rejecting") /\ MayRun(u)
  /\ call[u].action \in staged /\ staged' = staged \ {call[u].action}
  /\ UNCHANGED <<review, made, page, call, told, history, faults, deaths>>

(* The CLI removes the file itself and says that no action was taken.      *)
RejectEnds(u) ==
  /\ At(u, "rejecting")
  /\ staged' = staged \ {call[u].action}
  /\ call' = [call EXCEPT ![u].at = "over"] /\ Answered(u, "rejected")
  /\ UNCHANGED <<review, made, page, history, faults, deaths>>

(* The server is killed and comes up again: what it was doing stops where  *)
(* it is, the files stay.                                                  *)
Death ==
  LET hit == {c \in Callers : At(c, "posted") \/ Executing(c)} IN
  /\ deaths < MaxDeaths /\ deaths' = deaths + 1
  /\ call' = [c \in Callers |->
                IF c \in hit THEN [call[c] EXCEPT !.at = "over"] ELSE call[c]]
  /\ told' = [c \in Callers |->
                IF c \in hit /\ told[c] = "" THEN "failed" ELSE told[c]]
  /\ cut' = cut \cup {c \in Callers : Executing(c)}
  /\ UNCHANGED <<review, staged, made, page, began, strayed, faults>>

Next ==
  \/ \E a \in Actions : Stage(a)
  \/ \E u \in Users :
       Prompt(u) \/ Choose(u) \/ GiveUp(u) \/ RejectServed(u) \/ RejectEnds(u)
  \/ \E g \in Agents : ToolCall(g) \/ AgentRejects(g)
  \/ \E c \in Callers :
       \/ Begin(c) \/ ReadPage(c) \/ Insert(c) \/ Delete(c)
       \/ RequestFails(c) \/ Unlink(c)
  \/ Death

Spec == Init /\ [][Next]_vars

-----------------------------------------------------------------------------
Blocks == [of : Callers \cup {"old", "rest"}, n : Nat]
Calls == [at : {"idle", "prompt", "posted", "rejecting", "read", "insert", "delete",
                "unlink", "over"},
          action : Actions \cup {Nobody}, seen : Seq(Blocks), after : Blocks,
          done : Nat, result : {"done", "failed"}]

TypeOK ==
  /\ review \in BOOLEAN
  /\ staged \subseteq made /\ made \subseteq Actions
  /\ page \in Seq(Blocks) /\ call \in [Callers -> Calls]
  /\ told \in [Callers -> {"", "done", "failed", "not found", "rejected"}]
  /\ (cut \cup strayed) \subseteq began /\ began \subseteq Callers
  /\ faults \in 0..MaxFaults /\ deaths \in 0..MaxDeaths

Whole(text, pieces) == \A n \in 1..pieces : OnPage(Block(text, n))

(* The pieces of a text are in their order and before what follows the     *)
(* section.  Pieces of other texts may stand between them, for two          *)
(* executions that overlap may insert after one block.                      *)
InPlace(text) ==
  \A i, j \in DOMAIN page :
    i < j /\ page[j].of = text =>
      page[i].of # "rest" /\ (page[i].of = text => page[i].n < page[j].n)

Present(text, pieces) == Whole(text, pieces) /\ (text \notin strayed => InPlace(text))

(* replace_section inserts before it deletes, so that a failure "duplicates *)
(* content (recoverable) rather than losing it" (notion.py:213).  Whatever  *)
(* fails, dies, is answered, is executed twice or at once, the page holds   *)
(* the text the section had or one of those it was to get, complete, and in *)
(* its place if its pieces were inserted one after the other.               *)
SomeTextIsThere == Present("old", 2) \/ \E c \in Callers : Present(c, Batches)

(* A user who is told that the section was replaced finds the whole new     *)
(* text there, in its place unless it strayed; or else another execution    *)
(* has read some of it as what it is to replace (_execute,                  *)
(* notion.py:168-231).                                                      *)
ReplacedIsThere ==
  \A c \in Callers :
    told[c] = "done" =>
      \/ Present(c, Batches)
      \/ \E d \in Callers \ {c} : \E i \in DOMAIN call[d].seen : call[d].seen[i].of = c

(* The batches are chained "after the last inserted", which "preserves      *)
(* position" (notion.py:222, 210).  The code takes the last object of the   *)
(* answer for the last one inserted.                                        *)
TextIsInPlace ==
  \/ Whole("old", 2) /\ InPlace("old")
  \/ \E c \in Callers : Whole(c, Batches) /\ InPlace(c)

(* One action, confirmed at two prompts, is executed for one of them: the   *)
(* routes are served one after the other, and the file is gone when the     *)
(* second has its turn (confirm_action, integrations/__init__.py:64-84).    *)
(* The exception is an execution that did not come to removing the file.    *)
ConfirmedOnce ==
  \A u, v \in Users \cap (began \ cut) :
    call[u].action = call[v].action => u = v

(* The CLI says of a rejected action that "no action" was "taken"           *)
(* (cli/hive:509).  It says so too when the action was confirmed elsewhere. *)
RejectedIsNotDone ==
  \A u \in Users : told[u] = "rejected" =>
    \A c \in began : call[c].action # call[u].action

(* The CLI says that a confirmation failed (cli/hive:456), also when the    *)
(* action is executed after the 30 seconds it waits.                        *)
FailedIsNotDone ==
  ~ \E u \in Users \cap (began \ cut) :
      told[u] = "failed" /\ At(u, "over") /\ call[u].result = "done"
=============================================================================
