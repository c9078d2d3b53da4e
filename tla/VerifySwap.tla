----------------------------- MODULE VerifySwap ------------------------------
(***************************************************************************)
(* verify_project's swap of staged edits into the source tree:              *)
(* _materialize of hive-mcp/tools/verification.py, with those that touch    *)
(* the same files meanwhile: apply_diff and write_file of files.py, in the  *)
(* same process, and the confirm and reject commands of cli/hive, outside   *)
(* it.                                                                     *)
(*                                                                         *)
(* A file is three directory entries: the target, target.hive_proposed and  *)
(* target.hive_verify_backup.  What an entry holds is the set of edits      *)
(* applied to the original, or Absent.  Every rename, read and write is a   *)
(* step of its own; verify_project calls run on threads of a pool and meet  *)
(* only at the per-target locks.                                           *)
(***************************************************************************)
EXTENDS Naturals, Sequences, SequencesExt

CONSTANTS
    Files,          \* resolved paths
    Names,          \* the relative paths a caller may pass for them
    FileOf,         \* name -> the path it resolves to
    NameOrder,      \* the names in string order
    Calls,          \* pool threads running verify_project
    Edits,          \* apply_diff and write_file calls, one edit each
    MayBeNew,       \* files that need not exist yet
    Absent, Free,
    MaxVerifications, MaxDecisions,
    MaxFaults       \* bounds; a fault is a refused rename or a death of the process

ASSUME NamesAssumption ==
    /\ FileOf \in [Names -> Files]
    /\ NameOrder \in Seq(Names) /\ IsInjective(NameOrder) /\ Range(NameOrder) = Names
ASSUME FilesAssumption == MayBeNew \subseteq Files
ASSUME AbsentAssumption == (\A s \in SUBSET Edits : s # Absent) /\ Free \notin Calls

VARIABLES
    target, proposed, backup,   \* file -> the content of each entry
    lock,           \* _target_locks: who holds the target's lock
    call,           \* the verify_project calls
    editor,         \* apply_diff or write_file between its read and its write
    user,           \* hive confirm between its reads and writes
    started, decided, faults,   \* spent, against the bounds
    source,         \* history: what the target holds when nobody is verifying
    disturbed       \* history: a rename failed, the process died or the user acted under a lock

tree == <<target, proposed, backup>>
spent == <<started, decided, faults>>
history == <<source, disturbed>>
vars == <<tree, lock, call, editor, user, spent, history>>

Content == SUBSET Edits
NoCall == [pc |-> "idle", todo |-> <<>>, held |-> <<>>, swap |-> <<>>, swapped |-> <<>>, ok |-> TRUE]
NoEdit == [pc |-> "none", file |-> Absent, base |-> {}, whole |-> FALSE, crossed |-> FALSE]
NoUser == [pc |-> "none", file |-> Absent, content |-> {}]

Swapped(f) == \E c \in Calls : f \in Range(call[c].swapped)
\* The call that is between the two renames that swap f in, or back out
Between(f) == \E c \in Calls : call[c].pc = "show" /\ Head(call[c].swap) = f

Init ==
    /\ target \in [Files -> {{}, Absent}]
    /\ \A f \in Files \ MayBeNew : target[f] = {}
    /\ proposed = [f \in Files |-> Absent]
    /\ backup = [f \in Files |-> Absent]
    /\ lock = [f \in Files |-> Free]
    /\ call = [c \in Calls |-> NoCall]
    /\ editor = [e \in Edits |-> NoEdit]
    /\ user = NoUser
    /\ started = 0 /\ decided = 0 /\ faults = 0
    /\ source = target
    /\ disturbed = {}

\* History: the edits of f that are between their read and their write
Crossing(f) ==
    [e \in Edits |-> IF editor[e].pc = "read" /\ editor[e].file = f
                     THEN [editor[e] EXCEPT !.crossed = TRUE] ELSE editor[e]]

\* The sequence that goes through keep in the order of all, which lists each once
InOrder(all, keep) ==
    {s \in UNION {[1..n -> keep] : n \in 0..Len(all)} :
        /\ Range(s) = keep
        /\ \A i, j \in DOMAIN s : i < j =>
             \E k, l \in DOMAIN all : k < l /\ all[k] = s[i] /\ all[l] = s[j]}

-----------------------------------------------------------------------------
(* PASS 0: lock every requested target, in the order of sorted(set(targets))  *)

Begin(c) ==
    /\ call[c].pc = "idle"
    /\ started < MaxVerifications
    /\ started' = started + 1
    /\ \E requested \in SUBSET Names \ {{}} : \E todo \in InOrder(NameOrder, requested) :
         call' = [call EXCEPT ![c] =
                    [NoCall EXCEPT !.pc = "lock",
                        !.todo = todo]]
    /\ UNCHANGED <<tree, lock, editor, user, decided, faults, history>>

\* lock.acquire(): threading.Lock is not reentrant.
BugAvailable(c, f) == TRUE
Available(c, f) == lock[f] = Free

Acquire(c) ==
    LET f == FileOf[Head(call[c].todo)] IN
    /\ call[c].pc = "lock" /\ call[c].todo # <<>>
    /\ Available(c, f)
    /\ lock' = [lock EXCEPT ![f] = c]
    /\ call' = [call EXCEPT ![c].todo = Tail(@), ![c].held = Append(@, f)]
    /\ editor' = Crossing(f)
    /\ UNCHANGED <<tree, user, spent, history>>

-----------------------------------------------------------------------------
(* PASS 1: the targets with a staged edit; a backup of one of those is an     *)
(* error before anything is renamed                                          *)

Look(c) ==
    LET staged == {f \in Range(call[c].held) : proposed[f] # Absent}
        stale == \E f \in staged : backup[f] # Absent
    IN
    /\ call[c].pc = "lock" /\ call[c].todo = <<>>
    /\ \E swappable \in InOrder(call[c].held, staged) :
         call' = [call EXCEPT ![c].swap = IF stale THEN <<>> ELSE swappable,
                              ![c].ok = ~stale,
                              ![c].pc = IF stale THEN "restore" ELSE "hide"]
    /\ UNCHANGED <<tree, lock, editor, user, spent, history>>

-----------------------------------------------------------------------------
(* PASS 2: target -> backup, proposed -> target                               *)

\* A rename finds no source, or the file system refuses it.
Refused == faults < MaxFaults /\ faults' = faults + 1
Granted == UNCHANGED faults

\* target.rename(backup)
Hide(c) ==
    LET f == Head(call[c].swap) IN
    /\ call[c].pc = "hide" /\ call[c].swap # <<>>
    /\ \/ /\ target[f] # Absent /\ Granted
          /\ backup' = [backup EXCEPT ![f] = target[f]]
          /\ target' = [target EXCEPT ![f] = Absent]
          /\ call' = [call EXCEPT ![c].pc = "show"]
       \/ /\ IF target[f] = Absent THEN Granted ELSE Refused
          /\ call' = [call EXCEPT ![c].pc = "restore", ![c].ok = FALSE]
          /\ UNCHANGED <<target, backup>>
    /\ UNCHANGED <<proposed, lock, editor, user, started, decided, history>>

\* proposed.rename(target); only after it is the target one to restore.
Show(c) ==
    LET f == Head(call[c].swap) IN
    /\ call[c].pc = "show"
    /\ \/ /\ proposed[f] # Absent /\ Granted
          /\ target' = [target EXCEPT ![f] = proposed[f]]
          /\ proposed' = [proposed EXCEPT ![f] = Absent]
          /\ call' = [call EXCEPT ![c].pc = "hide", ![c].swap = Tail(@),
                                  ![c].swapped = Append(@, f)]
          /\ UNCHANGED disturbed
       \/ /\ IF proposed[f] = Absent THEN Granted ELSE Refused
          /\ call' = [call EXCEPT ![c].pc = "restore", ![c].ok = FALSE]
          /\ disturbed' = disturbed \union {f}
          /\ UNCHANGED <<target, proposed>>
    /\ UNCHANGED <<backup, lock, editor, user, started, decided, source>>

\* The body: _run_all runs the declared checks, which take as long as they do.
Check(c) ==
    /\ call[c].pc = "hide" /\ call[c].swap = <<>>
    /\ call' = [call EXCEPT ![c].pc = "restore"]
    /\ UNCHANGED <<tree, lock, editor, user, spent, history>>

-----------------------------------------------------------------------------
(* finally: restore in reverse order, then release every lock                 *)

\* A step that fails is noted, the others are still restored.
GiveUp(c, f) ==
    /\ call' = [call EXCEPT ![c].pc = "restore", ![c].swapped = Front(@), ![c].ok = FALSE]
    /\ disturbed' = disturbed \union {f}

\* target.rename(proposed): replaces whatever was staged meanwhile
PutBack(c) ==
    LET f == Last(call[c].swapped) IN
    /\ call[c].pc = "restore" /\ call[c].swapped # <<>>
    /\ \/ /\ Granted
          /\ proposed' = [proposed EXCEPT ![f] = target[f]]
          /\ target' = [target EXCEPT ![f] = Absent]
          /\ call' = [call EXCEPT ![c].pc = "reinstate"]
          /\ UNCHANGED disturbed
       \/ /\ Refused
          /\ GiveUp(c, f)
          /\ UNCHANGED <<target, proposed>>
    /\ UNCHANGED <<backup, lock, editor, user, started, decided, source>>

\* backup.rename(target)
Reinstate(c) ==
    LET f == Last(call[c].swapped) IN
    /\ call[c].pc = "reinstate"
    /\ \/ /\ Granted
          /\ target' = [target EXCEPT ![f] = backup[f]]
          /\ backup' = [backup EXCEPT ![f] = Absent]
          /\ call' = [call EXCEPT ![c].pc = "restore", ![c].swapped = Front(@)]
          /\ UNCHANGED disturbed
       \/ /\ Refused
          /\ GiveUp(c, f)
          /\ UNCHANGED <<target, backup>>
    /\ UNCHANGED <<proposed, lock, editor, user, started, decided, source>>

BugReleased(c) == IF call[c].ok THEN Range(call[c].held) ELSE {}
Released(c) == Range(call[c].held)

Release(c) ==
    /\ call[c].pc = "restore" /\ call[c].swapped = <<>>
    /\ lock' = [f \in Files |-> IF f \in Released(c) THEN Free ELSE lock[f]]
    /\ call' = [call EXCEPT ![c] = NoCall]
    /\ UNCHANGED <<tree, editor, user, spent, history>>

-----------------------------------------------------------------------------
(* Under WRITE_REVIEW apply_diff edits what is staged, or else the target; a    *)
(* write_file is refused if the target exists, whether anything is staged or    *)
(* not                                                                       *)

\* Others are at work on f: a verification, a confirmation, another edit.
Busy(f, e) ==
    \/ lock[f] # Free \/ user.file = f
    \/ \E d \in Edits \ {e} : editor[d].pc = "read" /\ editor[d].file = f

BugBase(f) == target[f]
Base(f) == IF proposed[f] # Absent THEN proposed[f] ELSE target[f]

EditRead(e) ==
    /\ editor[e].pc = "none"
    /\ \E f \in Files :
         /\ target[f] # Absent
         /\ editor' = [Crossing(f) EXCEPT ![e] =
              [pc |-> "read", file |-> f, base |-> Base(f), whole |-> FALSE, crossed |-> Busy(f, e)]]
    /\ UNCHANGED <<tree, lock, call, user, spent, history>>

NewFile(e) ==
    /\ editor[e].pc = "none"
    /\ \E f \in Files :
         /\ target[f] = Absent
         /\ editor' = [Crossing(f) EXCEPT ![e] =
              [pc |-> "read", file |-> f, base |-> {}, whole |-> TRUE, crossed |-> Busy(f, e)]]
    /\ UNCHANGED <<tree, lock, call, user, spent, history>>

EditsIn(entry) == IF entry = Absent THEN {} ELSE entry

\* What a whole new content replaces, staged or in the source, counts as rewritten;
\* what the user has deleted, and is not in the source, as rejected.
Dropped(gone, as) ==
    [e \in Edits |-> IF e \in gone /\ editor[e].pc = "staged"
                     THEN [editor[e] EXCEPT !.pc = as] ELSE editor[e]]

EditWrite(e) ==
    LET f == editor[e].file IN
    /\ editor[e].pc = "read"
    /\ proposed' = [proposed EXCEPT ![f] = editor[e].base \union {e}]
    /\ editor' = [(IF editor[e].whole THEN Dropped(EditsIn(Base(f)), "rewritten") ELSE editor) EXCEPT
                    ![e].pc = "staged", ![e].crossed = @ \/ Busy(f, e)]
    /\ UNCHANGED <<target, backup, lock, call, user, spent, history>>

-----------------------------------------------------------------------------
(* The human, through cli/hive                                               *)

\* The user acts on f while a verification has it locked.
Disturb(f) == disturbed' = IF lock[f] = Free THEN disturbed ELSE disturbed \union {f}

\* _confirm_locally: read the staged content, write the target, unlink
ConfirmRead ==
    /\ user.pc = "none" /\ decided < MaxDecisions
    /\ decided' = decided + 1
    /\ \E f \in Files :
         /\ proposed[f] # Absent
         /\ user' = [pc |-> "write", file |-> f, content |-> proposed[f]]
         /\ editor' = Crossing(f)
    /\ UNCHANGED <<tree, lock, call, started, faults, history>>

ConfirmWrite ==
    LET f == user.file IN
    /\ user.pc = "write"
    /\ target' = [target EXCEPT ![f] = user.content]
    /\ source' = [source EXCEPT ![f] = user.content]
    /\ Disturb(f)
    /\ user' = [user EXCEPT !.pc = "unlink"]
    /\ UNCHANGED <<proposed, backup, lock, call, editor, spent>>

ConfirmUnlink ==
    LET f == user.file IN
    /\ user.pc = "unlink"
    /\ proposed' = [proposed EXCEPT ![f] = Absent]
    /\ Disturb(f)
    /\ user' = NoUser
    /\ UNCHANGED <<target, backup, lock, call, editor, spent, source>>

\* _reject_locally, and the cleanup command for every staged file
Reject ==
    /\ user.pc = "none" /\ decided < MaxDecisions
    /\ decided' = decided + 1
    /\ \E f \in Files :
         /\ proposed[f] # Absent
         /\ proposed' = [proposed EXCEPT ![f] = Absent]
         /\ editor' = Dropped(proposed[f] \ EditsIn(target[f]), "rejected")
         /\ Disturb(f)
    /\ UNCHANGED <<target, backup, lock, call, user, started, faults, source>>

-----------------------------------------------------------------------------
\* The hive-mcp process dies: its threads and their locks are gone, the files
\* stay as they are.
Crash ==
    /\ faults < MaxFaults
    /\ faults' = faults + 1
    /\ lock' = [f \in Files |-> Free]
    /\ call' = [c \in Calls |-> NoCall]
    /\ editor' = [e \in Edits |-> IF editor[e].pc = "read" THEN NoEdit ELSE editor[e]]
    /\ disturbed' = disturbed \union {f \in Files : backup[f] # Absent}
    /\ UNCHANGED <<tree, user, started, decided, source>>

Work(c) ==
    \/ Acquire(c)
    \/ Look(c)
    \/ Hide(c)
    \/ Show(c)
    \/ Check(c)
    \/ PutBack(c)
    \/ Reinstate(c)
    \/ Release(c)

Next ==
    \/ \E c \in Calls : Begin(c)
    \/ \E c \in Calls : Work(c)
    \/ \E e \in Edits : EditRead(e)
    \/ \E e \in Edits : NewFile(e)
    \/ \E e \in Edits : EditWrite(e)
    \/ ConfirmRead
    \/ ConfirmWrite
    \/ ConfirmUnlink
    \/ Reject
    \/ Crash

\* A thread that can run runs; a check is cut off by run_command's timeout.
Fairness == \A c \in Calls : WF_vars(Work(c))

Spec == Init /\ [][Next]_vars /\ Fairness

-----------------------------------------------------------------------------
(* Properties *)

Entry == {Absent} \union Content
Call == [pc : {"idle", "lock", "hide", "show", "restore", "reinstate"},
         todo : Seq(Names), held : Seq(Files), swap : Seq(Files), swapped : Seq(Files),
         ok : BOOLEAN]
EditorRow == [pc : {"none", "read", "staged", "rewritten", "rejected"}, file : Files \union {Absent},
              base : Content, whole : BOOLEAN, crossed : BOOLEAN]
UserRow == [pc : {"none", "write", "unlink"}, file : Files \union {Absent}, content : Content]

\* Every variable stays in its type, and a target's lock is held by the call that
\* lists it, once, and by no other.
TypeOK ==
    /\ target \in [Files -> Entry] /\ proposed \in [Files -> Entry] /\ backup \in [Files -> Entry]
    /\ lock \in [Files -> Calls \union {Free}]
    /\ call \in [Calls -> Call]
    /\ \A c \in Calls :
         /\ IsInjective(call[c].held)
         /\ Range(call[c].held) = {f \in Files : lock[f] = c}
         /\ Range(call[c].swap) \union Range(call[c].swapped) \subseteq Range(call[c].held)
    /\ editor \in [Edits -> EditorRow] /\ user \in UserRow
    /\ source \in [Files -> Entry] /\ disturbed \subseteq Files

\* "The original bytes are restored exactly": unless a rename failed, the process
\* died or the user acted under the lock, the source is where it belongs, at the
\* target between verifications and at the backup during one, whatever calls and
\* edits run meanwhile.
OriginalKept ==
    \A f \in Files \ disturbed :
        IF Swapped(f) \/ Between(f)
        THEN backup[f] = source[f]
        ELSE target[f] = source[f] /\ backup[f] = Absent

\* What apply_diff or write_file has reported as review_pending is in what the user
\* is shown, or, when nothing is staged, at the target, however edits accumulate and
\* verifications swap them in and out, until it is rejected or rewritten: unless
\* something else was at work on the file between the read and the write of the edit,
\* a rename failed, or the user acted under the lock of a verification.
StagedEditsKept ==
    \A e \in Edits :
        LET f == editor[e].file IN
        editor[e].pc = "staged" /\ ~editor[e].crossed /\ f \notin disturbed =>
            e \in EditsIn(IF proposed[f] # Absent THEN proposed[f] ELSE target[f])

\* "That proposed content is swapped in at the target's real path for the duration
\* of the check": no verification fails but for a leftover backup, a fault or the
\* user.
StagedIsVerifiable ==
    \A c \in Calls : call[c].pc = "restore" /\ ~call[c].ok =>
        faults > 0 \/ decided > 0

\* "Can never deadlock waiting on each other in reverse order": every call ends.
VerificationsFinish == \A c \in Calls : call[c].pc # "idle" ~> call[c].pc = "idle"

\* A leftover backup of a requested target "is treated as evidence a prior
\* verification crashed": the checks are not run.
StaleBackupStopsChecks ==
    \A c \in Calls : call[c].pc = "hide" /\ call[c].swapped = <<>> =>
        \A f \in Range(call[c].held) : backup[f] = Absent
=============================================================================
