--------------------------- MODULE FaceUserStore ---------------------------
(***************************************************************************)
(* The list of authorised faces and its two files: addUserFromEmbeddings,  *)
(* deleteUser, saveUsers and loadUsers of                                  *)
(* entry/src/main/ets/face/FaceAccessManager.ets, called from Index.ets    *)
(* when a face is enrolled or deleted and when the page appears.           *)
(*                                                                         *)
(* A save truncates and writes the backup, then the primary file, with an  *)
(* await at every step; it can fail, the application can be killed, and    *)
(* nothing keeps two saves apart: a face may be deleted while another      *)
(* change is still being written.                                          *)
(***************************************************************************)
EXTENDS Naturals, FiniteSets, Sequences

CONSTANTS
  Users,      \* the faces there are
  MaxSaves,   \* bound of the model: changes
  MaxFailures \* bound of the model: saves that fail or are cut off with no
              \* complete save between them

ASSUME FaceUserStoreAssumption ==
  /\ IsFiniteSet(Users) /\ MaxSaves \in Nat /\ MaxFailures \in Nat

VARIABLES
  users,    \* the list in memory, by which faces are recognised
  shown,    \* faceUsers: the list on the screen
  file,     \* the contents of the files, see below
  jobs,     \* writes in progress
  loading,  \* what loadUsers reads next
  saves,    \* how many changes have been made
  \* History, for the properties:
  saved,    \* no write is in progress and the last save to end was reported
            \* to the user as saved
  expected, \* the lists that a restart should come up with one of
  failures, \* how many writes have failed or been cut off
  overlap   \* whether saves have overlapped: "now" when the newest save has.
            \* Both are since the last save that was alone and complete

vars == <<users, shown, file, jobs, loading, saves, saved, expected, failures, overlap>>

Files == {"primary", "backup"}
Lists == SUBSET Users

\* A file is <<>> when it is missing or truncated, <<l>> when it holds the
\* list l, and <<l, m>> when l has been written over a longer text m.
Contents == {<<>>} \cup {<<l>> : l \in Lists} \cup (Lists \X Lists)

Readable(c) == Len(c) = 1

\* What the file may hold after l is written from its start: the lists' texts
\* are as long as the lists are, roughly.
Written(c, l) ==
  IF c = <<>> \/ l = c[Len(c)] THEN {<<l>>}
  ELSE LET last == c[Len(c)] IN
       (IF Cardinality(l) >= Cardinality(last) THEN {<<l>>} ELSE {})
         \cup (IF Cardinality(l) <= Cardinality(last) THEN {<<l, last>>} ELSE {})

\* A write in progress: the files it has to write, the first of them opened
\* and truncated or not yet.
Job == [id : 0..MaxSaves, by : {"enrol", "delete", "load"},
        list : Lists, open : BOOLEAN,
        todo : {<<"backup", "primary">>, <<"primary">>, <<"backup">>}]

Init ==
  /\ users = {} /\ shown = {} /\ jobs = {} /\ loading = "primary"
  /\ saves = 0 /\ saved = FALSE /\ failures = 0 /\ overlap = "none"
  /\ \E l \in Lists : /\ file \in {[f \in Files |-> <<l>>], [f \in Files |-> <<>>]}
                      /\ expected = IF file["primary"] = <<>> THEN {{}} ELSE {l}

-----------------------------------------------------------------------------
(* Changes *)

Loading == loading # "done" \/ \E j \in jobs : j.by = "load"

\* saveUsers turns the list into text at once and writes it afterwards.
SaveUsers(list, by) ==
  /\ saves < MaxSaves
  /\ saves' = saves + 1
  /\ users' = list
  /\ jobs' = jobs \cup {[id |-> saves', by |-> by, list |-> list, open |-> FALSE,
                         todo |-> <<"backup", "primary">>]}
  /\ saved' = FALSE
  /\ expected' = expected \cup {list}
  /\ overlap' = IF jobs # {} THEN "now" ELSE IF overlap = "now" THEN "past" ELSE overlap
  /\ UNCHANGED <<file, loading, failures>>

\* Enrolling is guarded against itself only.  Its five pictures take seconds:
\* loadUsers, started when the page appears, has returned by the time it saves.
Enrol(u) ==
  /\ u \notin users /\ ~Loading
  /\ \A j \in jobs : j.by # "enrol"
  /\ SaveUsers(users \cup {u}, "enrol")
  /\ UNCHANGED shown

\* A deletion is guarded against nothing.
Delete(u) ==
  /\ u \in shown
  /\ SaveUsers(users \ {u}, "delete")
  /\ shown' = users'

-----------------------------------------------------------------------------
(* writeStoredUsers *)

OpenFile(j) ==
  /\ j \in jobs /\ ~j.open
  /\ file' = [file EXCEPT ![Head(j.todo)] = <<>>]
  /\ jobs' = (jobs \ {j}) \cup {[j EXCEPT !.open = TRUE]}
  /\ UNCHANGED <<users, shown, loading, saves, saved, expected, failures, overlap>>

\* Mutant of WriteFile: the save is over with the backup.
WriteOneFile(j) ==
  /\ j \in jobs /\ j.open
  /\ \E c \in Written(file[Head(j.todo)], j.list) :
       file' = [file EXCEPT ![Head(j.todo)] = c]
  /\ jobs' = jobs \ {j}
  /\ saved' = (j.by # "load" /\ jobs' = {})
  /\ expected' = IF saved' THEN {users} ELSE expected
  /\ UNCHANGED <<users, shown, loading, saves, failures, overlap>>

\* With its last file written the save is reported to the user.
WriteFile(j) ==
  /\ j \in jobs /\ j.open
  /\ \E c \in Written(file[Head(j.todo)], j.list) :
       file' = [file EXCEPT ![Head(j.todo)] = c]
  /\ IF Len(j.todo) = 1
     THEN /\ jobs' = jobs \ {j}
          /\ shown' = IF j.by = "delete" THEN shown ELSE users
          /\ saved' = IF j.by = "load" THEN saved ELSE jobs' = {}
          /\ expected' = IF saved' THEN {users} ELSE expected
          /\ IF j.by # "load" /\ overlap # "now"
             THEN failures' = 0 /\ overlap' = "none"
             ELSE UNCHANGED <<failures, overlap>>
     ELSE /\ jobs' = (jobs \ {j}) \cup {[j EXCEPT !.open = FALSE, !.todo = Tail(@)]}
          /\ UNCHANGED <<shown, saved, expected, failures, overlap>>
  /\ UNCHANGED <<users, loading, saves>>

\* The open or the write throws, on a full disk for example; the file stays
\* as it is, truncated if it has been opened.  A text written in part cannot
\* be read either and counts as truncated.
WriteFails(j) ==
  /\ j \in jobs /\ failures < MaxFailures
  /\ failures' = failures + 1
  /\ jobs' = jobs \ {j}
  /\ shown' = IF j.by = "load" THEN users ELSE shown
  /\ UNCHANGED <<users, file, loading, saves, saved, expected, overlap>>

-----------------------------------------------------------------------------
(* Restart and loadUsers *)

\* The application is killed and started again; it counts only when a write
\* is cut off.
Restart ==
  /\ jobs # {} => failures < MaxFailures
  /\ failures' = IF jobs = {} THEN failures ELSE failures + 1
  /\ users' = {} /\ shown' = {} /\ jobs' = {} /\ loading' = "primary" /\ saved' = FALSE
  /\ UNCHANGED <<file, saves, expected, overlap>>

\* Mutant of LoadPrimary: whatever is in the file is taken.
LoadPrimaryAnyway ==
  /\ loading = "primary"
  /\ loading' = "done"
  /\ users' = IF file["primary"] = <<>> THEN {} ELSE file["primary"][1]
  /\ UNCHANGED <<shown, jobs, file, saves, saved, expected, failures, overlap>>

\* A primary file that can be read replaces the list in memory, and the
\* backup is written from it.
LoadPrimary ==
  /\ loading = "primary"
  /\ IF Readable(file["primary"])
     THEN /\ loading' = "done"
          /\ users' = file["primary"][1]
          /\ jobs' = jobs \cup {[id |-> 0, by |-> "load",
                                 list |-> users', open |-> FALSE,
                                 todo |-> <<"backup">>]}
     ELSE loading' = "backup" /\ UNCHANGED <<users, jobs>>
  /\ UNCHANGED <<shown, file, saves, saved, expected, failures, overlap>>

\* The backup is only read: the primary file stays as it is.
LoadBackup ==
  /\ loading = "backup"
  /\ loading' = "done"
  /\ users' = IF Readable(file["backup"]) THEN file["backup"][1] ELSE users
  /\ shown' = users'
  /\ UNCHANGED <<jobs, file, saves, saved, expected, failures, overlap>>

Next ==
  \/ \E u \in Users : Enrol(u) \/ Delete(u)
  \/ \E j \in jobs : OpenFile(j) \/ WriteFile(j) \/ WriteFails(j)
  \/ Restart \/ LoadPrimary \/ LoadBackup

Spec == Init /\ [][Next]_vars

\* Writes go on and loading goes on unless the application is killed.
Fairness ==
  /\ WF_vars(\E j \in jobs : OpenFile(j) \/ WriteFile(j))
  /\ WF_vars(LoadPrimary \/ LoadBackup)

FairSpec == Spec /\ Fairness

-----------------------------------------------------------------------------
(* Properties *)

\* What a restart would load now.
OnDisk ==
  IF Readable(file["primary"]) THEN file["primary"][1]
  ELSE IF Readable(file["backup"]) THEN file["backup"][1] ELSE {}

\* A change that has been reported as saved (Index.ets:9990, 10114) is what a
\* restart brings back: no enrolled face is missing, no deleted one returns.
\* It is so if no other save was in progress while it was saved, whatever the
\* saves, overlaps, failures and restarts before it have left in the files.
SavedIsDurable == saved /\ overlap = "none" => OnDisk = users

\* Whatever write of a save fails or is cut off (FaceAccessManager.ets:224,
\* 262), a restart comes up with the list as it was saved last or as it was
\* being saved, never with less.  It is so for one such failure after a save
\* that was alone and complete; a second one may find only the file that the
\* first has left.
RestartKeepsList ==
  [][loading # "done" /\ loading' = "done" /\ overlap = "none" /\ failures <= 1
       => users' \in expected]_vars

\* docs/禹家终端详细使用说明.md:415: a deleted user no longer has access by
\* face.  After a restart no face is recognised that was in none of the lists
\* since the last moment when everything had been reported as saved.
DeletedStaysOut ==
  [][loading # "done" /\ loading' = "done" => users' \subseteq UNION expected]_vars
=============================================================================
