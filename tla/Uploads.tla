------------------------------ MODULE Uploads -------------------------------
(***************************************************************************)
(* Images which are uploaded (pipeline/mediaupload.js), resized            *)
(* (lib/imageResizer.js), and deleted (lib/media.js), by workers which     *)
(* share a directory and a collection.                                     *)
(***************************************************************************)
EXTENDS Naturals, FiniteSets

CONSTANTS
    Images,    \* uploads
    WorkerOf,  \* worker which handles each
    Sizes,
    MaxClock   \* bound on the milliseconds which pass

VARIABLES
    clock,     \* milliseconds
    counter,   \* names each worker has made
    up,        \* how far each upload is, its name, what was read of its file, and the sizes made
    files,     \* uploads whose bytes are in each file, {} of a file which is not there
    sized,     \* the same of each size of each file
    rows,      \* uploads in the collection
    deletion,  \* sizes of each upload which are about to be deleted, and whether its row is
    past       \* what may excuse what is wrong

vars == <<clock, counter, up, files, sized, rows, deletion, past>>

Handlers == {WorkerOf[u] : u \in Images}
\* the time and a number of the worker's own, hashed
FileNames == (0..MaxClock) \X (0..Cardinality(Images))
Nameless == <<0, 0>>

Steps == {"none", "named", "open", "closed", "resizing", "measured", "answered", "refused", "aborted", "dead"}
Going(u) == up[u].step \in {"named", "open", "closed", "resizing", "measured"}

TypeOK ==
    /\ clock \in 0..MaxClock
    /\ counter \in [Handlers -> 0..Cardinality(Images)]
    /\ up \in [Images -> [step : Steps, name : FileNames, read : SUBSET Images, left : SUBSET Sizes, ok : BOOLEAN]]
    /\ files \in [FileNames -> SUBSET Images]
    /\ sized \in [FileNames \X Sizes -> SUBSET Images]
    /\ rows \subseteq Images
    /\ deletion \in [Images -> [left : SUBSET Sizes, row : BOOLEAN]]
    /\ past.shared \subseteq FileNames /\ past.unwritten \subseteq Images \X Sizes /\ past.deleted \subseteq Images

Init ==
    /\ clock = 0 /\ counter = [w \in Handlers |-> 0]
    /\ up = [u \in Images |-> [step |-> "none", name |-> Nameless, read |-> {}, left |-> Sizes, ok |-> TRUE]]
    /\ files = [n \in FileNames |-> {}] /\ sized = [f \in FileNames \X Sizes |-> {}]
    /\ rows = {}
    /\ deletion = [u \in Images |-> [left |-> {}, row |-> FALSE]]
    /\ past = [shared |-> {}, unwritten |-> {}, deleted |-> {}]

-----------------------------------------------------------------------------
(* An upload *)

Tick ==
    /\ clock < MaxClock
    /\ clock' = clock + 1
    /\ UNCHANGED <<counter, up, files, sized, rows, deletion, past>>

\* the File is constructed
Name(u) ==
    /\ up[u].step = "none"
    /\ LET w == WorkerOf[u]
           n == <<clock, counter[w]>> IN
         /\ counter' = [counter EXCEPT ![w] = @ + 1]
         /\ up' = [up EXCEPT ![u].step = "named", ![u].name = n]
         /\ past' = IF \E v \in Images : up[v].step # "none" /\ up[v].name = n
                    THEN [past EXCEPT !.shared = @ \union {n}] ELSE past
    /\ UNCHANGED <<clock, files, sized, rows, deletion>>

\* fromPostData(): the stream truncates the file
Open(u) ==
    /\ up[u].step = "named"
    /\ up' = [up EXCEPT ![u].step = "open"]
    /\ files' = [files EXCEPT ![up[u].name] = {}]
    /\ UNCHANGED <<clock, counter, sized, rows, deletion, past>>

\* the body arrives, and the stream closes when it has ended; a request which is aborted does not end
Pipe(u) ==
    /\ up[u].step = "open"
    /\ files' = [files EXCEPT ![up[u].name] = @ \union {u}]
    /\ \E step \in {"closed", "aborted"} : up' = [up EXCEPT ![u].step = step]
    /\ UNCHANGED <<clock, counter, sized, rows, deletion, past>>

\* resizev4(): the file is read once for all sizes
Read(u) ==
    /\ up[u].step = "closed"
    /\ up' = [up EXCEPT ![u].step = "resizing", ![u].read = files[up[u].name]]
    /\ UNCHANGED <<clock, counter, files, sized, rows, deletion, past>>

\* execute(): one size after the other; one which was not written is listed as well
Resize(u) ==
    /\ up[u].step = "resizing"
    /\ \E s \in up[u].left :
          /\ up' = [up EXCEPT ![u].left = @ \ {s}]
          /\ \/ sized' = [sized EXCEPT ![<<up[u].name, s>>] = up[u].read] /\ UNCHANGED past
             \/ past' = [past EXCEPT !.unwritten = @ \union {<<u, s>>}] /\ UNCHANGED sized
    /\ UNCHANGED <<clock, counter, files, rows, deletion>>

\* the size of the image is taken; if that fails, its row has no sizes
Measure(u) ==
    /\ up[u].step = "resizing" /\ up[u].left = {}
    /\ \E ok \in BOOLEAN : up' = [up EXCEPT ![u].step = "measured", ![u].ok = ok]
    /\ UNCHANGED <<clock, counter, files, sized, rows, deletion, past>>

\* A mutant of Insert: an upload which is refused has no row.
InsertOk(u) ==
    /\ up[u].step = "measured"
    /\ rows' = IF up[u].ok THEN rows \union {u} ELSE rows
    /\ up' = [up EXCEPT ![u].step = IF up[u].ok THEN "answered" ELSE "refused"]
    /\ UNCHANGED <<clock, counter, files, sized, deletion, past>>

\* the row is inserted in either case, and then the request answered
Insert(u) ==
    /\ up[u].step = "measured"
    /\ rows' = rows \union {u}
    /\ up' = [up EXCEPT ![u].step = IF up[u].ok THEN "answered" ELSE "refused"]
    /\ UNCHANGED <<clock, counter, files, sized, deletion, past>>

\* sizes which the row of an upload lists
Listed(u) == IF up[u].ok THEN Sizes ELSE {}

-----------------------------------------------------------------------------
(* Its deletion: delete() *)

\* The row is found.  The original is looked for where no file is, at the path of its directory.
Delete(u) ==
    /\ u \in rows
    /\ deletion' = [deletion EXCEPT ![u] = [left |-> Listed(u), row |-> TRUE]]
    /\ past' = [past EXCEPT !.deleted = @ \union {u}]
    /\ UNCHANGED <<clock, counter, up, files, sized, rows>>

\* nothing waits for the files
Unlink(u) ==
    /\ \E s \in deletion[u].left :
          /\ sized' = [sized EXCEPT ![<<up[u].name, s>>] = {}]
          /\ deletion' = [deletion EXCEPT ![u].left = @ \ {s}]
    /\ UNCHANGED <<clock, counter, up, files, rows, past>>

RemoveRow(u) ==
    /\ deletion[u].row
    /\ rows' = rows \ {u}
    /\ deletion' = [deletion EXCEPT ![u].row = FALSE]
    /\ UNCHANGED <<clock, counter, up, files, sized, past>>

\* a worker dies, and what it was doing with it
Crash(w) ==
    /\ \E u \in Images : WorkerOf[u] = w /\ Going(u)
    /\ counter' = [counter EXCEPT ![w] = 0]
    /\ up' = [u \in Images |-> IF WorkerOf[u] = w /\ Going(u) THEN [up[u] EXCEPT !.step = "dead"] ELSE up[u]]
    /\ UNCHANGED <<clock, files, sized, rows, deletion, past>>

Next ==
    \/ Tick
    \/ \E u \in Images : Name(u) \/ Open(u) \/ Pipe(u) \/ Read(u) \/ Resize(u) \/ Measure(u) \/ Insert(u)
                         \/ Delete(u) \/ Unlink(u) \/ RemoveRow(u)
    \/ \E w \in Handlers : Crash(w)

Spec == Init /\ [][Next]_vars

-----------------------------------------------------------------------------
(* Properties *)

Alone(u) == up[u].name \notin past.shared

\* A row which nobody has begun to delete has its own image under its name, and under each size it lists
\* and which was written, unless two workers have made the same name (mediaupload.js:46).
RowHasFiles ==
    \A u \in rows \ past.deleted :
        Alone(u) => /\ files[up[u].name] = {u}
                    /\ \A s \in Listed(u) : <<u, s>> \in past.unwritten \/ sized[<<up[u].name, s>>] = {u}

\* No size is left of an upload whose deletion is over, and no file of any is another's; the original
\* always is, for nothing deletes it (media.js:187).
SizesDeleted ==
    \A u \in past.deleted :
        u \notin rows /\ deletion[u].left = {} /\ Alone(u) /\ up[u].ok =>
            \A s \in Sizes : sized[<<up[u].name, s>>] = {}

\* A file without a row is of an upload which goes on, was aborted, died with its worker, or was deleted
\* (mediaupload.js:79).
NoStrayFile ==
    \A n \in FileNames : files[n] # {} =>
        \E u \in Images :
            /\ up[u].name = n /\ up[u].step # "none"
            /\ u \in rows \union past.deleted \/ Going(u) \/ up[u].step \in {"aborted", "dead"}
=============================================================================
