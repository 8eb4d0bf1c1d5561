------------------------ MODULE InstanceBootstrapProofs ------------------------
(***************************************************************************)
(* Safety of InstanceBootstrap for every set of packages and every number  *)
(* of attempts.  What the verdict of a job says of the directory is said   *)
(* of the archive long before: the invariant follows the pieces of it      *)
(* through answers, failures, closes that lose their end, and retries.     *)
(***************************************************************************)
EXTENDS InstanceBootstrap, FiniteSetTheorems, SequenceTheorems, TLAPS

\* Nothing is in the directory until tar fills it.
EmptyUntilTar == worker.at \in {"answer", "read", "close", "pause"} => target = "empty"

\* There is another attempt after a pause.
AttemptLeft == worker.at = "pause" => worker.attempt < Attempts

\* What the job is told of the package comes with an answer.
Untold == worker.origins = {} => file = <<>> /\ worker.total = 0

\* A job all whose answers were from p has pieces of p only and knows no other
\* length; while an answer is read, what is there and what is left are p.
OnePackage ==
    \A p \in Packages : worker.origins = {p} =>
        /\ \A i \in 1..Len(file) : file[i] = p
        /\ Len(file) <= p /\ worker.total \in {0, p}
        /\ worker.at = "read" => worker.from = p /\ Len(file) + worker.left = p
        /\ worker.at = "tar" => Len(file) >= worker.total

\* An answer that is read is from a package of the job.
Answering == worker.at = "read" => worker.from \in worker.origins

IInv == /\ TypeOK
        /\ EmptyUntilTar
        /\ AttemptLeft
        /\ Untold
        /\ OnePackage
        /\ Answering
-----------------------------------------------------------------------------
\* Packages are numbers up to the most pieces one has.
LEMMA PackageNumbers ==
    /\ MaxPieces \in Packages
    /\ \A p \in Packages : p \in Nat /\ p > 0 /\ p <= MaxPieces
<1>1. PICK most \in Packages : \A p \in Packages : p <= most
  BY BootstrapAssumption
<1>2. \A p \in Packages : p \in Nat /\ p > 0
  BY BootstrapAssumption
<1>3. \A p \in Packages : most >= p
  BY <1>1, <1>2
<1>4. MaxPieces \in Packages /\ \A p \in Packages : MaxPieces >= p
  BY <1>3, Zenon DEF MaxPieces, Max
<1> QED
  BY <1>2, <1>4

\* The greater of two numbers.
LEMMA MaxOfTwo ==
    ASSUME NEW a \in Nat, NEW b \in Nat
    PROVE  Max({a, b}) = IF a >= b THEN a ELSE b
<1>1. \E x \in {a, b} : \A y \in {a, b} : x >= y
  OBVIOUS
<1>2. Max({a, b}) \in {a, b} /\ \A y \in {a, b} : Max({a, b}) >= y
  BY <1>1, Zenon DEF Max
<1> QED
  BY <1>2

\* The beginning of a file.
LEMMA Beginning ==
    ASSUME NEW archive \in Seq(Packages), NEW n \in 0..Len(archive)
    PROVE  /\ SubSeq(archive, 1, n) \in Seq(Packages)
           /\ Len(SubSeq(archive, 1, n)) = n
           /\ \A i \in 1..n : SubSeq(archive, 1, n)[i] = archive[i]
<1>1. \A i \in 1..n : archive[i] \in Packages
  BY ElementOfSeq
<1>2. n \in Int /\ 1 \in Int /\ n >= 0
  OBVIOUS
<1> QED
  BY <1>1, <1>2, SubSeqProperties

\* A file is the beginning of another.
BeginOf(a, b) ==
    a \in Seq(Packages) /\ Len(a) <= Len(b) /\ \A i \in 1..Len(a) : a[i] = b[i]

\* A file begins with itself, and with nothing.
LEMMA BeginnersSelf ==
    ASSUME NEW b \in Seq(Packages)
    PROVE  BeginOf(b, b) /\ BeginOf(<<>>, b) /\ <<>> \in Seq(Packages) /\ Len(<<>>) = 0
BY EmptySeq, LenProperties DEF BeginOf

\* The end of a job, however it ends.
LEMMA EndsKeeps ==
    ASSUME IInv, NEW phase \in {"done", "error", "cancelled"}, NEW added \in BOOLEAN,
           Ends(phase, added), target' \in {"empty", "parts", "server"},
           registered' \in BOOLEAN, served' = served
    PROVE  IInv'
<1>1. /\ worker' \in WorkerRec /\ worker'.at = "nowhere"
      /\ worker'.total = worker.total /\ worker'.origins = worker.origins
      /\ state' \in StateRec /\ ~state'.running
  BY DEF Ends, IInv, TypeOK, WorkerRec, StateRec
<1>2. file' = <<>> /\ <<>> \in Seq(Packages) /\ Len(<<>>) = 0
  BY BeginnersSelf DEF Ends, IInv, TypeOK
<1>3. TypeOK'
  BY <1>1, <1>2 DEF IInv, TypeOK
<1>4. OnePackage'
  BY <1>1, <1>2, PackageNumbers DEF OnePackage, IInv
<1> QED
  BY <1>1, <1>2, <1>3, <1>4 DEF IInv, EmptyUntilTar, AttemptLeft, Untold, Answering

\* An attempt that begins, or is cancelled.
LEMMA AttemptKeeps ==
    ASSUME IInv, worker.at \in {"releases", "pause"}, target = "empty",
           NEW n \in 1..Attempts, Attempt(n), UNCHANGED <<target, registered, served>>
    PROVE  IInv'
<1>1. CASE Cancelled
  BY <1>1, EndsKeeps DEF Cancelled, IInv, TypeOK
<1>2. CASE ~Cancelled
  <2>1. /\ worker' \in WorkerRec /\ worker'.at = "answer" /\ state' \in StateRec
        /\ worker'.total = worker.total /\ worker'.origins = worker.origins
        /\ file' = file /\ state'.running = state.running
    <3>1. n \in 0..Attempts
      BY BootstrapAssumption
    <3>2. /\ state' = [state EXCEPT !.phase = "download"]
          /\ worker' = [worker EXCEPT !.at = "answer", !.attempt = n] /\ file' = file
      BY <1>2 DEF Attempt
    <3>3. worker' \in WorkerRec
      BY <3>1, <3>2 DEF IInv, TypeOK, WorkerRec, Waits
    <3>4. worker'.at = "answer"
      BY <3>2 DEF IInv, TypeOK, WorkerRec
    <3>5. worker'.total = worker.total /\ worker'.origins = worker.origins
      BY <3>2 DEF IInv, TypeOK, WorkerRec
    <3>6. state' \in StateRec /\ state'.running = state.running
      BY <3>2 DEF IInv, TypeOK, StateRec
    <3> QED
      BY <3>2, <3>3, <3>4, <3>5, <3>6
  <2>2. TypeOK'
    BY <2>1 DEF IInv, TypeOK
  <2>3. OnePackage' /\ Untold'
    BY <2>1 DEF IInv, OnePackage, Untold
  <2> QED
    BY <2>1, <2>2, <2>3 DEF IInv, EmptyUntilTar, AttemptLeft, Answering
<1> QED
  BY <1>1, <1>2

\* A retry, or a failure.
LEMMA RetriesKeeps ==
    ASSUME IInv, worker.at \in {"answer", "read", "close"}, NEW transient \in BOOLEAN,
           NEW archive, BeginOf(archive, file), Retries(transient, archive),
           UNCHANGED <<target, registered, served>>
    PROVE  IInv'
<1>1. CASE Fails
  BY <1>1, EndsKeeps DEF Fails, IInv, TypeOK
<1>2. CASE ~Fails
  <2>1. /\ worker' \in WorkerRec /\ worker'.at = "pause" /\ worker'.attempt < Attempts
        /\ worker'.total = worker.total /\ worker'.origins = worker.origins
        /\ file' = archive /\ state' = state
    BY <1>2 DEF Retries, IInv, TypeOK, WorkerRec, Waits
  <2>2. TypeOK'
    BY <2>1 DEF IInv, TypeOK, BeginOf
  <2>3. Untold'
    BY <2>1, BeginnersSelf, EmptySeq, LenProperties DEF IInv, TypeOK, Untold, BeginOf
  <2>4. OnePackage'
    <3>1. Len(archive) \in Nat /\ Len(file) \in Nat
      BY LenProperties DEF IInv, TypeOK, BeginOf
    <3>2. \A i \in 1..Len(archive) : i \in 1..Len(file)
      BY <3>1 DEF BeginOf
    <3> QED
      BY <2>1, <3>1, <3>2, PackageNumbers DEF IInv, OnePackage, BeginOf
  <2> QED
    BY <2>1, <2>2, <2>3, <2>4 DEF IInv, EmptyUntilTar, AttemptLeft, Answering
<1> QED
  BY <1>1, <1>2

\* An answer is from the package that is served: it goes on with a file of it, or
\* starts again.
LEMMA AnsweredKeeps ==
    ASSUME IInv, Answered
    PROVE  IInv'
<1>1. PICK kept \in {0, Len(file)}, measured \in BOOLEAN :
        /\ kept > 0 => kept < served
        /\ Reads([worker EXCEPT !.at = "read", !.from = served, !.left = served - kept,
                                !.total = IF measured THEN Max({@, served}) ELSE @,
                                !.origins = @ \cup {served}],
                 SubSeq(file, 1, kept))
  BY DEF Answered
<1>2. worker.at = "answer" /\ UNCHANGED <<target, registered, served>>
  BY DEF Answered
<1>3. CASE Cancelled
  BY <1>2, <1>3, EndsKeeps DEF Cancelled, IInv, TypeOK
<1>4. CASE ~Cancelled
  <2> DEFINE total == IF measured THEN Max({worker.total, served}) ELSE worker.total
  <2>1. /\ worker' = [worker EXCEPT !.at = "read", !.from = served, !.left = served - kept,
                          !.total = total, !.origins = @ \cup {served}]
        /\ file' = SubSeq(file, 1, kept) /\ UNCHANGED state
    BY <1>1, <1>4 DEF Reads
  <2>2. /\ served \in Packages /\ served \in Nat /\ served > 0 /\ served <= MaxPieces
        /\ MaxPieces \in Nat
    BY PackageNumbers DEF IInv, TypeOK
  <2>3. /\ worker \in WorkerRec /\ worker.total \in 0..MaxPieces /\ worker.total \in Nat
        /\ worker.origins \in SUBSET Packages
    BY <2>2 DEF IInv, TypeOK, WorkerRec
  <2>4. file \in Seq(Packages) /\ Len(file) \in Nat /\ kept \in 0..Len(file)
    BY LenProperties DEF IInv, TypeOK
  <2>5. served - kept \in 0..MaxPieces /\ kept <= served /\ kept + (served - kept) = served
    BY <1>1, <2>2, <2>4
  <2>6. /\ total \in 0..MaxPieces
        /\ worker.total \in {0, served} => total \in {0, served}
    <3>1. CASE measured
      BY <2>2, <2>3, <3>1, MaxOfTwo
    <3>2. CASE ~measured
      BY <2>3, <3>2
    <3> QED
      BY <3>1, <3>2
  <2> HIDE DEF total
  <2>7. worker' \in WorkerRec
    BY <2>1, <2>2, <2>3, <2>5, <2>6 DEF WorkerRec, Waits
  <2>8. /\ worker'.at = "read" /\ worker'.from = served /\ worker'.left = served - kept
        /\ worker'.total = total /\ worker'.origins = worker.origins \cup {served}
    BY <2>1, <2>3 DEF WorkerRec
  <2>9. /\ file' \in Seq(Packages) /\ Len(file') = kept
        /\ \A i \in 1..kept : file'[i] = file[i]
    BY <2>1, <2>4, Beginning
  <2>10. TypeOK'
    BY <1>2, <2>1, <2>7, <2>8, <2>9 DEF IInv, TypeOK
  <2>11. OnePackage'
    <3> SUFFICES ASSUME NEW p \in Packages, worker'.origins = {p}
                 PROVE  /\ \A i \in 1..Len(file') : file'[i] = p
                        /\ Len(file') <= p /\ worker'.total \in {0, p}
                        /\ worker'.from = p /\ Len(file') + worker'.left = p
      BY <2>8 DEF OnePackage
    <3>1. served = p /\ (worker.origins = {} \/ worker.origins = {p})
      BY <2>8
    <3>2. CASE worker.origins = {}
      <4>1. kept = 0 /\ worker.total = 0
        BY <2>4, <3>2, EmptySeq DEF IInv, Untold
      <4> QED
        BY <2>2, <2>5, <2>6, <2>8, <2>9, <3>1, <4>1
    <3>3. CASE worker.origins = {p}
      <4>1. (\A i \in 1..Len(file) : file[i] = p) /\ worker.total \in {0, p}
        BY <3>3 DEF IInv, OnePackage
      <4>2. \A i \in 1..kept : i \in 1..Len(file)
        BY <2>4
      <4> QED
        BY <2>2, <2>5, <2>6, <2>8, <2>9, <3>1, <4>1, <4>2
    <3> QED
      BY <3>1, <3>2, <3>3
  <2> QED
    BY <1>2, <2>8, <2>10, <2>11 DEF IInv, EmptyUntilTar, AttemptLeft, Untold, Answering
<1> QED
  BY <1>3, <1>4

\* A piece is from the package of the answer.
LEMMA PieceKeeps ==
    ASSUME IInv, Piece
    PROVE  IInv'
<1>1. /\ worker.at = "read" /\ worker.left > 0 /\ UNCHANGED <<target, registered, served>>
      /\ Reads([worker EXCEPT !.left = @ - 1], Append(file, worker.from))
  BY DEF Piece
<1>2. CASE Cancelled
  BY <1>1, <1>2, EndsKeeps DEF Cancelled, IInv, TypeOK
<1>3. CASE ~Cancelled
  <2>1. /\ worker' = [worker EXCEPT !.left = @ - 1] /\ UNCHANGED state
        /\ file' = Append(file, worker.from)
    BY <1>1, <1>3 DEF Reads
  <2>2. /\ worker \in WorkerRec /\ worker.origins \in SUBSET Packages
        /\ worker.from \in worker.origins /\ worker.from \in Packages
    BY <1>1 DEF IInv, TypeOK, WorkerRec, Answering
  <2>3. worker.left \in Nat /\ worker.left <= MaxPieces /\ MaxPieces \in Nat
    BY <2>2, PackageNumbers DEF WorkerRec
  <2>4. worker.left - 1 \in 0..MaxPieces
    BY <1>1, <2>3
  <2>5. worker' \in WorkerRec
    BY <2>1, <2>2, <2>4 DEF WorkerRec
  <2>6. /\ worker'.at = "read" /\ worker'.from = worker.from
        /\ worker'.left = worker.left - 1 /\ worker'.total = worker.total
        /\ worker'.origins = worker.origins
    BY <1>1, <2>1, <2>2 DEF WorkerRec
  <2>7. file \in Seq(Packages) /\ Len(file) \in Nat
    BY LenProperties DEF IInv, TypeOK
  <2>8. /\ file' \in Seq(Packages) /\ Len(file') = Len(file) + 1
        /\ \A i \in 1..Len(file) : file'[i] = file[i]
        /\ file'[Len(file) + 1] = worker.from
    BY <2>1, <2>2, <2>7, AppendProperties
  <2>9. TypeOK'
    BY <1>1, <2>1, <2>5, <2>6, <2>8 DEF IInv, TypeOK
  <2>10. OnePackage'
    <3> SUFFICES ASSUME NEW p \in Packages, worker.origins = {p}
                 PROVE  /\ \A i \in 1..Len(file') : file'[i] = p
                        /\ Len(file') <= p /\ worker.total \in {0, p}
                        /\ worker.from = p /\ Len(file') + worker'.left = p
      BY <2>6 DEF OnePackage
    <3>1. /\ \A i \in 1..Len(file) : file[i] = p
          /\ worker.total \in {0, p} /\ worker.from = p /\ Len(file) + worker.left = p
      BY <1>1 DEF IInv, OnePackage
    <3>2. Len(file') + worker'.left = p /\ Len(file') <= p
      BY <1>1, <2>3, <2>6, <2>7, <2>8, <3>1, PackageNumbers
    <3>3. \A i \in 1..Len(file') : i \in 1..Len(file) \/ i = Len(file) + 1
      BY <2>7, <2>8
    <3> QED
      BY <2>8, <3>1, <3>2, <3>3
  <2> QED
    BY <1>1, <2>2, <2>6, <2>9, <2>10
       DEF IInv, EmptyUntilTar, AttemptLeft, Untold, Answering
<1> QED
  BY <1>2, <1>3

\* A file that is as long as expected, the end it lost counted, goes to tar.
LEMMA ClosedKeeps ==
    ASSUME IInv, Closed
    PROVE  IInv'
<1>1. PICK size \in 0..Len(file) :
        IF size < worker.total
        THEN Retries(TRUE, SubSeq(file, 1, size)) /\ UNCHANGED target
        ELSE IF state.stop
        THEN Cancelled /\ UNCHANGED target
        ELSE /\ state' = [state EXCEPT !.phase = "extract"]
             /\ worker' = [worker EXCEPT !.at = "tar"]
             /\ file' = SubSeq(file, 1, size) /\ target' = "parts"
  BY DEF Closed
<1>2. worker.at = "close" /\ UNCHANGED <<registered, served>>
  BY DEF Closed
<1>3. file \in Seq(Packages) /\ Len(file) \in Nat /\ size \in Nat /\ size <= Len(file)
  BY LenProperties DEF IInv, TypeOK
<1>4. /\ SubSeq(file, 1, size) \in Seq(Packages) /\ Len(SubSeq(file, 1, size)) = size
      /\ \A i \in 1..size : SubSeq(file, 1, size)[i] = file[i]
  BY <1>3, Beginning
<1>5. CASE size < worker.total
  <2>1. BeginOf(SubSeq(file, 1, size), file)
    BY <1>3, <1>4 DEF BeginOf
  <2> QED
    BY <1>1, <1>2, <1>5, <2>1, RetriesKeeps
<1>6. CASE ~(size < worker.total) /\ state.stop
  BY <1>1, <1>2, <1>6, EndsKeeps DEF Cancelled, IInv, TypeOK
<1>7. CASE ~(size < worker.total) /\ ~state.stop
  <2>1. /\ state' = [state EXCEPT !.phase = "extract"]
        /\ worker' = [worker EXCEPT !.at = "tar"]
        /\ file' = SubSeq(file, 1, size) /\ target' = "parts"
    BY <1>1, <1>7
  <2>2. worker' \in WorkerRec
    BY <2>1 DEF IInv, TypeOK, WorkerRec, Waits
  <2>3. /\ worker'.at = "tar" /\ worker'.total = worker.total
        /\ worker'.origins = worker.origins
    BY <2>1 DEF IInv, TypeOK, WorkerRec
  <2>4. state' \in StateRec /\ state'.running = state.running
    BY <2>1 DEF IInv, TypeOK, StateRec
  <2>5. TypeOK'
    BY <1>2, <1>4, <2>1, <2>2, <2>3, <2>4 DEF IInv, TypeOK
  <2>6. worker.total \in Nat /\ worker.total <= size
    BY <1>3, <1>7, PackageNumbers DEF IInv, TypeOK, WorkerRec
  <2>7. OnePackage'
    <3> SUFFICES ASSUME NEW p \in Packages, worker.origins = {p}
                 PROVE  /\ \A i \in 1..Len(file') : file'[i] = p
                        /\ Len(file') <= p /\ worker.total \in {0, p}
                        /\ Len(file') >= worker.total
      BY <2>3 DEF OnePackage
    <3>1. /\ \A i \in 1..Len(file) : file[i] = p
          /\ worker.total \in {0, p} /\ Len(file) <= p
      BY DEF IInv, OnePackage
    <3>2. \A i \in 1..size : i \in 1..Len(file)
      BY <1>3
    <3> QED
      BY <1>3, <1>4, <2>1, <2>6, <3>1, <3>2, PackageNumbers
  <2>8. Untold'
    <3> SUFFICES ASSUME worker.origins = {}
                 PROVE  file' = <<>> /\ worker.total = 0
      BY <2>3 DEF Untold
    <3>1. file = <<>> /\ worker.total = 0
      BY DEF IInv, Untold
    <3>2. Len(file') = 0 /\ file' \in Seq(Packages)
      BY <1>3, <1>4, <2>1, <3>1, EmptySeq
    <3> QED
      BY <3>1, <3>2, EmptySeq
  <2> QED
    BY <2>3, <2>5, <2>7, <2>8 DEF IInv, EmptyUntilTar, AttemptLeft, Answering
<1> QED
  BY <1>5, <1>6, <1>7

\* A job that has not been answered.
LEMMA BeginIdle ==
    /\ NoWorker \in WorkerRec /\ [NoWorker EXCEPT !.at = "releases"] \in WorkerRec
    /\ NoWorker.at = "nowhere" /\ NoWorker.total = 0 /\ NoWorker.origins = {}
    /\ [NoWorker EXCEPT !.at = "releases"].at = "releases"
    /\ [NoWorker EXCEPT !.at = "releases"].total = 0
    /\ [NoWorker EXCEPT !.at = "releases"].origins = {}
    /\ Idle \in StateRec /\ ~Idle.running
    /\ [Idle EXCEPT !.running = TRUE, !.phase = "prepare"] \in StateRec
    /\ [Idle EXCEPT !.running = TRUE, !.phase = "prepare"].running
<1>1. 0 \in 0..MaxPieces /\ 0 \in 0..Attempts
  BY PackageNumbers, BootstrapAssumption
<1>2. NoWorker \in WorkerRec /\ [NoWorker EXCEPT !.at = "releases"] \in WorkerRec
  BY <1>1 DEF NoWorker, WorkerRec, Waits
<1> QED
  BY <1>2 DEF NoWorker, Idle, StateRec

\* Nothing is said of a job that has not been answered.
LEMMA EmptyOnePackage ==
    ASSUME worker'.origins = {}
    PROVE  OnePackage'
BY DEF OnePackage

-----------------------------------------------------------------------------
\* Every step keeps the invariant.
LEMMA StepIInv ==
    ASSUME IInv, [Next]_vars
    PROVE  IInv'
<1>1. CASE Prepared
  <2>1. 1 \in 1..Attempts
    BY BootstrapAssumption
  <2>2. CASE target = "empty"
    BY <1>1, <2>1, <2>2, AttemptKeeps DEF Prepared
  <2>3. CASE target # "empty"
    BY <1>1, <2>3, EndsKeeps DEF Prepared, Fails, IInv, TypeOK
  <2> QED
    BY <2>2, <2>3
<1>2. CASE NotPrepared
  BY <1>2, EndsKeeps DEF NotPrepared, Fails, IInv, TypeOK
<1>3. CASE Answered
  BY <1>3, AnsweredKeeps
<1>4. CASE NotAnswered
  <2>1. PICK transient \in BOOLEAN : Retries(transient, file)
    BY <1>4 DEF NotAnswered
  <2>2. BeginOf(file, file)
    BY BeginnersSelf DEF IInv, TypeOK
  <2> QED
    BY <1>4, <2>1, <2>2, RetriesKeeps DEF NotAnswered
<1>5. CASE Piece
  BY <1>5, PieceKeeps
<1>6. CASE BodyEnds
  <2>1. /\ worker' = [worker EXCEPT !.at = "close"] /\ worker.at = "read"
        /\ UNCHANGED <<state, file, target, registered, served>>
    BY <1>6 DEF BodyEnds
  <2>2. worker' \in WorkerRec
    BY <2>1 DEF IInv, TypeOK, WorkerRec, Waits
  <2>3. /\ worker'.at = "close" /\ worker'.total = worker.total
        /\ worker'.origins = worker.origins
    BY <2>1 DEF IInv, TypeOK, WorkerRec
  <2>4. TypeOK' /\ OnePackage' /\ Untold'
    BY <2>1, <2>2, <2>3 DEF IInv, TypeOK, OnePackage, Untold
  <2> QED
    BY <2>1, <2>3, <2>4 DEF IInv, EmptyUntilTar, AttemptLeft, Answering
<1>7. CASE ReadFails
  <2>1. CASE state.stop
    BY <1>7, <2>1, EndsKeeps DEF ReadFails, Cancelled, IInv, TypeOK
  <2>2. CASE ~state.stop
    <3>1. PICK transient \in BOOLEAN : Retries(transient, <<>>)
      BY <1>7, <2>2 DEF ReadFails
    <3>2. BeginOf(<<>>, file)
      BY BeginnersSelf DEF IInv, TypeOK
    <3> QED
      BY <1>7, <3>1, <3>2, RetriesKeeps DEF ReadFails
  <2> QED
    BY <2>1, <2>2
<1>8. CASE Closed
  BY <1>8, ClosedKeeps
<1>9. CASE Paused
  <2>1. worker.attempt + 1 \in 1..Attempts
    BY <1>9, BootstrapAssumption DEF Paused, IInv, TypeOK, WorkerRec, AttemptLeft
  <2>2. target = "empty"
    BY <1>9 DEF Paused, IInv, EmptyUntilTar
  <2> QED
    BY <1>9, <2>1, <2>2, AttemptKeeps DEF Paused
<1>10. CASE Extracted
  <2>1. target' \in {"empty", "parts", "server"} /\ served' = served
    BY <1>10 DEF Extracted
  <2>2. CASE registered
    BY <1>10, <2>1, <2>2, EndsKeeps DEF Extracted, AutoAdd, Fails, IInv, TypeOK
  <2>3. CASE ~registered
    BY <1>10, <2>1, <2>3, EndsKeeps DEF Extracted, AutoAdd
  <2> QED
    BY <2>2, <2>3
<1>11. CASE NotExtracted
  BY <1>11, EndsKeeps DEF NotExtracted, Fails, IInv, TypeOK
<1>12. CASE Start
  BY <1>12, BeginIdle, BeginnersSelf, EmptyOnePackage
     DEF Start, IInv, TypeOK, EmptyUntilTar, AttemptLeft, Untold, Answering
<1>13. CASE Stop
  <2>1. state' \in StateRec /\ state'.running = state.running
    BY <1>13 DEF Stop, IInv, TypeOK, StateRec
  <2> QED
    BY <1>13, <2>1 DEF Stop, IInv, TypeOK, EmptyUntilTar, AttemptLeft, Untold,
                       OnePackage, Answering
<1>14. CASE Dies
  BY <1>14, BeginIdle, BeginnersSelf, EmptyOnePackage
     DEF Dies, IInv, TypeOK, EmptyUntilTar, AttemptLeft, Untold, Answering
<1>15. CASE UserRegisters
  BY <1>15 DEF UserRegisters, IInv, TypeOK, EmptyUntilTar, AttemptLeft, Untold,
               OnePackage, Answering
<1>16. CASE UserEmpties
  BY <1>16 DEF UserEmpties, IInv, TypeOK, EmptyUntilTar, AttemptLeft, Untold,
               OnePackage, Answering
<1>17. CASE Published
  BY <1>17 DEF Published, IInv, TypeOK, EmptyUntilTar, AttemptLeft, Untold,
               OnePackage, Answering
<1>18. CASE UNCHANGED vars
  BY <1>18 DEF vars, IInv, TypeOK, EmptyUntilTar, AttemptLeft, Untold, OnePackage,
               Answering
<1> QED
  BY <1>1, <1>2, <1>3, <1>4, <1>5, <1>6, <1>7, <1>8, <1>9, <1>10, <1>11, <1>12, <1>13,
     <1>14, <1>15, <1>16, <1>17, <1>18 DEF Next, Job, Download, Outside

\* The invariant holds at first.
LEMMA InitIInv == Init => IInv
BY BeginIdle, EmptySeq
   DEF Init, IInv, TypeOK, EmptyUntilTar, AttemptLeft, Untold, OnePackage, Answering

\* The inductive invariant holds throughout.
THEOREM Invariance == Spec => []IInv
<1>1. IInv /\ [Next]_vars => IInv'
  BY StepIInv
<1> QED
  BY InitIInv, <1>1, PTL DEF Spec

\* A job runs while its worker waits for something, and every state and archive
\* is of the form declared, for every set of packages and number of attempts.
THEOREM TypeCorrect == Spec => []TypeOK
<1>1. IInv => TypeOK
  BY DEF IInv
<1> QED
  BY Invariance, <1>1, PTL

-----------------------------------------------------------------------------
\* An archive at tar that has all the pieces of one package is whole.
LEMMA OneIsWhole ==
    ASSUME IInv, worker.at = "tar", worker.total > 0, Cardinality(worker.origins) = 1
    PROVE  Whole(file)
<1>1. worker.origins \in SUBSET Packages
  BY DEF IInv, TypeOK, WorkerRec
<1>2. IsFiniteSet(worker.origins)
  BY <1>1, BootstrapAssumption, FS_Subset
<1>3. PICK p \in worker.origins : worker.origins = {p}
  BY <1>2, FS_Singleton
<1>4. p \in Packages /\ p \in Nat /\ p > 0
  BY <1>1, <1>3, PackageNumbers
<1>5. /\ \A i \in 1..Len(file) : file[i] = p
      /\ Len(file) <= p /\ worker.total \in {0, p} /\ Len(file) >= worker.total
  BY <1>3, <1>4 DEF IInv, OnePackage
<1>6. file \in Seq(Packages) /\ Len(file) \in Nat
  BY LenProperties DEF IInv, TypeOK
<1>7. Len(file) = p
  BY <1>4, <1>5, <1>6
<1>8. file = [i \in 1..p |-> file[i]]
  BY <1>6, <1>7, LenProperties
<1>9. \A i \in 1..p : file[i] = p
  BY <1>5, <1>7
<1>10. file = [i \in 1..p |-> p]
  BY <1>8, <1>9
<1> QED
  BY <1>4, <1>10 DEF Whole

\* The ways a job comes to its end.
LEMMA WaysToEnd ==
    ASSUME IInv, Next, state.running, ~state'.running
    PROVE  \/ ~state'.added /\ state'.phase \in {"error", "idle"}
           \/ ~state'.added /\ state'.phase = "cancelled" /\ target' = "empty"
           \/ /\ state'.phase = "done" /\ ~registered /\ worker.at = "tar"
              /\ state'.added = registered'
              /\ Whole(file) => target' = "server"
<1> USE DEF IInv, TypeOK
<1>1. ASSUME NEW phase, NEW added, Ends(phase, added)
      PROVE  state'.phase = phase /\ state'.added = added
  BY <1>1 DEF Ends, StateRec
<1>2. Fails => ~state'.added /\ state'.phase = "error"
  BY <1>1 DEF Fails
<1>3. Cancelled => ~state'.added /\ state'.phase = "cancelled"
  BY <1>1 DEF Cancelled
<1>4. ASSUME NEW n, Attempt(n), target' = target, target = "empty"
      PROVE  ~state'.added /\ state'.phase = "cancelled" /\ target' = "empty"
  <2>1. CASE state.stop
    BY <1>3, <1>4, <2>1 DEF Attempt
  <2>2. CASE ~state.stop
    BY <1>4, <2>2 DEF Attempt, StateRec
  <2> QED
    BY <2>1, <2>2
<1>5. ASSUME NEW transient, NEW archive, Retries(transient, archive)
      PROVE  ~state'.added /\ state'.phase = "error"
  BY <1>2, <1>5 DEF Retries
<1>6. ASSUME NEW to, NEW archive, Reads(to, archive), target' = target, target = "empty"
      PROVE  ~state'.added /\ state'.phase = "cancelled" /\ target' = "empty"
  BY <1>3, <1>6 DEF Reads
<1>7. worker.at \in {"answer", "read", "close", "pause"} => target = "empty"
  BY DEF EmptyUntilTar
<1>8. CASE Prepared
  BY <1>2, <1>4, <1>8 DEF Prepared
<1>9. CASE NotPrepared
  BY <1>2, <1>9 DEF NotPrepared
<1>10. CASE Answered
  BY <1>6, <1>7, <1>10 DEF Answered
<1>11. CASE NotAnswered
  BY <1>5, <1>11 DEF NotAnswered
<1>12. CASE Piece
  BY <1>6, <1>7, <1>12 DEF Piece
<1>13. CASE ReadFails
  BY <1>3, <1>5, <1>7, <1>13 DEF ReadFails
<1>14. CASE Closed
  <2>1. PICK size \in 0..Len(file) :
          IF size < worker.total
          THEN Retries(TRUE, SubSeq(file, 1, size)) /\ UNCHANGED target
          ELSE IF state.stop
          THEN Cancelled /\ UNCHANGED target
          ELSE /\ state' = [state EXCEPT !.phase = "extract"]
               /\ worker' = [worker EXCEPT !.at = "tar"]
               /\ file' = SubSeq(file, 1, size) /\ target' = "parts"
    BY <1>14 DEF Closed
  <2>2. CASE size < worker.total
    BY <1>5, <2>1, <2>2
  <2>3. CASE ~(size < worker.total) /\ state.stop
    BY <1>3, <1>7, <1>14, <2>1, <2>3 DEF Closed
  <2>4. CASE ~(size < worker.total) /\ ~state.stop
    BY <2>1, <2>4 DEF StateRec
  <2> QED
    BY <2>2, <2>3, <2>4
<1>15. CASE Paused
  BY <1>4, <1>7, <1>15 DEF Paused
<1>16. CASE Extracted
  BY <1>1, <1>2, <1>16 DEF Extracted, AutoAdd
<1>17. CASE NotExtracted
  BY <1>2, <1>17 DEF NotExtracted
<1>18. CASE Dies
  BY <1>18 DEF Dies, Idle
<1>19. CASE BodyEnds \/ Start \/ Stop \/ UserRegisters \/ UserEmpties \/ Published
  BY <1>19 DEF BodyEnds, Start, Stop, UserRegisters, UserEmpties, Published, StateRec
<1> QED
  BY <1>8, <1>9, <1>10, <1>11, <1>12, <1>13, <1>14, <1>15, <1>16, <1>17, <1>18, <1>19
     DEF Next, Job, Download, Outside

\* A job that reports it is done, and knew the length of the one package it was
\* answered with, left the whole server, whatever was cut, lost and tried again on
\* the way; a cancelled one left nothing; an instance is added once.
THEOREM VerdictTrue == Spec => VerdictIsTrue
<1>1. IInv /\ [Next]_vars =>
        [state.running /\ ~state'.running =>
         /\ state'.phase = "done" /\ worker.total > 0 /\ Cardinality(worker.origins) = 1
              => target' = "server"
         /\ state'.phase = "cancelled" => target' = "empty"
         /\ state'.added => registered' /\ ~registered]_vars
  <2> SUFFICES ASSUME IInv, Next, state.running, ~state'.running
               PROVE
         /\ state'.phase = "done" /\ worker.total > 0 /\ Cardinality(worker.origins) = 1
              => target' = "server"
         /\ state'.phase = "cancelled" => target' = "empty"
         /\ state'.added => registered' /\ ~registered
    OBVIOUS
  <2> QED
    BY WaysToEnd, OneIsWhole
<1> QED
  BY Invariance, <1>1, PTL DEF Spec, VerdictIsTrue
=============================================================================
