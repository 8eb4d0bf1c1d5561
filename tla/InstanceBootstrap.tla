--------------------------- MODULE InstanceBootstrap ---------------------------
(***************************************************************************)
(* InstanceBootstrapService: a job downloads a package of the game,        *)
(* extracts it to an empty directory and registers the server there as an  *)
(* instance.  A download that was cut is resumed at the size of the file.  *)
(* A file is the sequence of the packages its pieces are from.  Each       *)
(* action is what runs between two awaits.                                 *)
(***************************************************************************)
EXTENDS Integers, Sequences, FiniteSets, FiniteSetsExt

CONSTANTS
    Packages,       \* what the download URL may lead to, one after the other
    Attempts        \* attempts at a download: 4 in the code

ASSUME BootstrapAssumption ==
    /\ Packages \subseteq Nat \ {0} /\ IsFiniteSet(Packages)
    /\ \E most \in Packages : \A p \in Packages : p <= most
    /\ Attempts \in Nat \ {0}

VARIABLES
    state,          \* InstanceBootstrapService.state
    worker,         \* the await runWorker is at, and what it knows of the download
    file,           \* the archive in the directory for temporary files
    target,         \* what the directory of the server holds
    registered,     \* the directory is that of an instance
    served          \* the package behind the URL

vars == <<state, worker, file, target, registered, served>>

\* Package p has p pieces.
Whole(archive) == \E p \in Packages : archive = [i \in 1..p |-> p]
MaxPieces      == Max(Packages)

StateRec == [running : BOOLEAN, stop : BOOLEAN, added : BOOLEAN,
             phase : {"idle", "prepare", "download", "extract", "done", "error", "cancelled"}]
Idle == [running |-> FALSE, stop |-> FALSE, added |-> FALSE, phase |-> "idle"]

\* attempt: the one under way; from: the package the answer is from; left: the
\* pieces of it still to come; total: expectedTotal, 0 if no answer gave its
\* length; origins: the packages that the answers of the job were from.
Waits == {"releases", "answer", "read", "close", "pause", "tar"}
WorkerRec == [at : {"nowhere"} \cup Waits, attempt : 0..Attempts,
              from : Packages \cup {0}, left : 0..MaxPieces,
              total : 0..MaxPieces, origins : SUBSET Packages]
NoWorker  == [at |-> "nowhere", attempt |-> 0, from |-> 0, left |-> 0,
              total |-> 0, origins |-> {}]

TypeOK ==
    /\ state \in StateRec /\ worker \in WorkerRec
    /\ state.running <=> worker.at # "nowhere"
    /\ file \in Seq(Packages)
    /\ target \in {"empty", "parts", "server"}
    /\ registered \in BOOLEAN /\ served \in Packages

Init ==
    /\ state = Idle /\ worker = NoWorker /\ file = <<>>
    /\ target = "empty" /\ registered = FALSE /\ served \in Packages

-----------------------------------------------------------------------------
(* start(), stop(), and the ends of runWorker.                             *)

Start ==
    /\ ~state.running /\ ~registered
    /\ state' = [Idle EXCEPT !.running = TRUE, !.phase = "prepare"]
    /\ worker' = [NoWorker EXCEPT !.at = "releases"]
    /\ file' = <<>>
    /\ UNCHANGED <<target, registered, served>>

Stop ==
    /\ state.running
    /\ state' = [state EXCEPT !.stop = TRUE]
    /\ UNCHANGED <<worker, file, target, registered, served>>

\* The archive is removed whatever the end.
Ends(phase, added) ==
    /\ state' = [state EXCEPT !.running = FALSE, !.phase = phase, !.added = added]
    /\ worker' = [worker EXCEPT !.at = "nowhere"]
    /\ file' = <<>>

Cancelled == Ends("cancelled", FALSE)
Fails     == Ends("error", FALSE)

-----------------------------------------------------------------------------
(* downloadWithResume().                                                   *)

\* Mutant: the attempts are not counted.
Attempt_NotCounted(n) ==
    IF state.stop
    THEN Cancelled
    ELSE /\ state' = [state EXCEPT !.phase = "download"]
         /\ worker' = [worker EXCEPT !.at = "answer", !.attempt = 1]
         /\ UNCHANGED file

\* An attempt begins with a look at the request to stop.
Attempt(n) ==
    IF state.stop
    THEN Cancelled
    ELSE /\ state' = [state EXCEPT !.phase = "download"]
         /\ worker' = [worker EXCEPT !.at = "answer", !.attempt = n]
         /\ UNCHANGED file

\* The version is known and the directory there; it has to be empty.
Prepared ==
    /\ worker.at = "releases"
    /\ IF target = "empty" THEN Attempt(1) ELSE Fails
    /\ UNCHANGED <<target, registered, served>>

\* There are no credentials, the build or version is not valid, or the
\* directory cannot be made.
NotPrepared ==
    /\ worker.at = "releases" /\ Fails
    /\ UNCHANGED <<target, registered, served>>

\* Mutant: one attempt too many.
Retries_OneMore(transient, archive) ==
    IF transient /\ worker.attempt <= Attempts
    THEN /\ worker' = [worker EXCEPT !.at = "pause"]
         /\ file' = archive /\ UNCHANGED state
    ELSE Fails

\* What has come so far is kept for the next attempt, if there is one.
Retries(transient, archive) ==
    IF transient /\ worker.attempt < Attempts
    THEN /\ worker' = [worker EXCEPT !.at = "pause"]
         /\ file' = archive /\ UNCHANGED state
    ELSE Fails

\* fetch throws ("fetch failed"), or the answer is 429 or 5xx: transient; or it
\* is another error.
NotAnswered ==
    /\ worker.at = "answer"
    /\ \E transient \in BOOLEAN : Retries(transient, file)
    /\ UNCHANGED <<target, registered, served>>

\* A request to stop is looked at before each read.
Reads(to, archive) ==
    IF state.stop
    THEN Cancelled
    ELSE worker' = to /\ file' = archive /\ UNCHANGED state

\* Mutant: an answer with all of the package is appended to what has come.
Answered_Appends ==
    /\ worker.at = "answer"
    /\ \E kept \in {0, Len(file)}, measured \in BOOLEAN :
         /\ kept > 0 => kept < served
         /\ Reads([worker EXCEPT !.at = "read", !.from = served, !.left = served - kept,
                      !.total = IF measured THEN Max({@, served}) ELSE @,
                      !.origins = @ \cup {served}],
                  file)
    /\ UNCHANGED <<target, registered, served>>

\* An answer of 206 is the rest of the package; one of 200 is all of it, and
\* the file is written from its start.
Answered ==
    /\ worker.at = "answer"
    /\ \E kept \in {0, Len(file)}, measured \in BOOLEAN :
         /\ kept > 0 => kept < served
         /\ Reads([worker EXCEPT !.at = "read", !.from = served, !.left = served - kept,
                                 !.total = IF measured THEN Max({@, served}) ELSE @,
                                 !.origins = @ \cup {served}],
                  SubSeq(file, 1, kept))
    /\ UNCHANGED <<target, registered, served>>

Piece ==
    /\ worker.at = "read" /\ worker.left > 0
    /\ Reads([worker EXCEPT !.left = @ - 1], Append(file, worker.from))
    /\ UNCHANGED <<target, registered, served>>

\* The body ends, all of it or not.
BodyEnds ==
    /\ worker.at = "read"
    /\ worker' = [worker EXCEPT !.at = "close"]
    /\ UNCHANGED <<state, file, target, registered, served>>

\* The reader throws: the file is removed.
ReadFails ==
    /\ worker.at = "read"
    /\ IF state.stop THEN Cancelled ELSE \E transient \in BOOLEAN : Retries(transient, <<>>)
    /\ UNCHANGED <<target, registered, served>>

\* The file is closed, with its end missing if the disk is full.  One shorter
\* than expected is not complete; else a request to stop is looked at, and tar
\* begins to fill the directory.
Closed ==
    /\ worker.at = "close"
    /\ \E size \in 0..Len(file) :
         IF size < worker.total
         THEN Retries(TRUE, SubSeq(file, 1, size)) /\ UNCHANGED target
         ELSE IF state.stop
         THEN Cancelled /\ UNCHANGED target
         ELSE /\ state' = [state EXCEPT !.phase = "extract"]
              /\ worker' = [worker EXCEPT !.at = "tar"]
              /\ file' = SubSeq(file, 1, size) /\ target' = "parts"
    /\ UNCHANGED <<registered, served>>

Paused ==
    /\ worker.at = "pause" /\ Attempt(worker.attempt + 1)
    /\ UNCHANGED <<target, registered, served>>

-----------------------------------------------------------------------------
(* The directory, and the instance.                                        *)

\* tryAutoAddInstance: a directory that has become that of an instance is an
\* error; that it cannot be added for another reason is not.
AutoAdd ==
    IF registered
    THEN Fails /\ UNCHANGED registered
    ELSE registered' \in BOOLEAN /\ Ends("done", registered')

\* tar has come to its end, and a server is there.
Extracted ==
    /\ worker.at = "tar"
    /\ target' = IF Whole(file) THEN "server" ELSE "parts"
    /\ AutoAdd
    /\ UNCHANGED served

\* tar fails or takes half an hour, or no server is there.
NotExtracted ==
    /\ worker.at = "tar" /\ Fails
    /\ UNCHANGED <<target, registered, served>>

-----------------------------------------------------------------------------
(* The panel dies; users and the download server go on.                    *)

\* Also when the file cannot be written: the error of the stream has no listener.
\* The archive stays, under a name that no other job takes.
Dies ==
    /\ state.running
    /\ state' = Idle /\ worker' = NoWorker /\ file' = <<>>
    /\ UNCHANGED <<target, registered, served>>

\* The directory becomes that of an instance, or is no longer.
UserRegisters ==
    /\ registered \/ target # "empty"
    /\ registered' = ~registered
    /\ UNCHANGED <<state, worker, file, target, served>>

UserEmpties ==
    /\ ~state.running /\ target # "empty"
    /\ target' = "empty"
    /\ UNCHANGED <<state, worker, file, registered, served>>

Published ==
    /\ served' \in Packages \ {served}
    /\ UNCHANGED <<state, worker, file, target, registered>>

Download == \/ Prepared \/ NotPrepared \/ Answered \/ NotAnswered \/ Piece
            \/ BodyEnds \/ ReadFails \/ Closed \/ Paused
Job      == Download \/ Extracted \/ NotExtracted
Outside  == Start \/ Stop \/ Dies \/ UserRegisters \/ UserEmpties \/ Published

Next == Job \/ Outside

Spec == Init /\ [][Next]_vars /\ WF_vars(Job)

-----------------------------------------------------------------------------
(* Properties.                                                             *)

\* What a job reports is so.  One that is done left the whole server of one
\* package in the directory, however many attempts and answers it is made of,
\* if no other package was published between them and one gave its length.  One
\* that was cancelled left the directory empty.
VerdictIsTrue ==
    [][state.running /\ ~state'.running =>
         /\ state'.phase = "done" /\ worker.total > 0 /\ Cardinality(worker.origins) = 1
              => target' = "server"
         /\ state'.phase = "cancelled" => target' = "empty"
         /\ state'.added => registered' /\ ~registered]_vars

\* A job ends, though a download starts over: start() refuses any other until then.
BootstrapEnds == state.running ~> ~state.running
=============================================================================
