----------------------------- MODULE ReadOnceProofs -----------------------------
(***************************************************************************)
(* What is settled once and serves from then on: the description of a      *)
(* remote source, which one of the jobs that ask for it reads; the         *)
(* pictures of radar loops, which a refresh and other maps take over; the  *)
(* frame and the rows a renderer holds, with the text that is in it; and   *)
(* the ink forced in a cell. The four share no state and nothing of one is *)
(* used for another.                                                       *)
(***************************************************************************)
EXTENDS RemoteSource, LoopPictures, FrameDraw, Canvas, FoldTheorems, WellFoundedInduction

-----------------------------------------------------------------------------
(***************************************************************************)
(* The one reader of a source's description, for any jobs, documents,      *)
(* remotes and redirects: nobody waits for a reader that is gone, the      *)
(* first answer stays, and what a job comes back with is its own.          *)
(***************************************************************************)

Stages == {"idle", "claim", "waiting", "woken", "reading", "tile"}
Answers == Documents \union {Directory}
Fetched == Documents \union Failures \union {None, "tile"}

Typed ==
  /\ made \in Seq(Addresses) /\ Len(made) <= MaxRemotes
  /\ remote \in 0..Len(made)
  /\ kept \in [Remotes -> Answers \union {Unread}]
  /\ reading \in [Remotes -> BOOLEAN]
  /\ at \in [Jobs -> Stages] /\ of \in [Jobs -> Nat]
  /\ claimed \in [Jobs -> BOOLEAN]
  /\ doc \in [Jobs -> Answers \union {None}]
  /\ end \in [Jobs -> {"open", "late", "caller"}]
  /\ got \in [Jobs -> Fetched]
  /\ ctx \in [Jobs -> {"live", "ended"}]

\* A job inside Get has a remote that was made, only a reader has a claim,
\* and a remote not made yet was told nothing.
Held ==
  /\ \A j \in Jobs : at[j] # "idle" => of[j] \in 1..Len(made)
  /\ \A j \in Jobs : claimed[j] => at[j] = "reading"
  /\ \A g \in Remotes : g > Len(made) => kept[g] = Unread

\* A job that fetches a tile was told what its remote keeps.
Followed ==
  \A j \in Jobs : at[j] = "tile" =>
    /\ kept[of[j]] # Unread
    /\ doc[j] = kept[of[j]] /\ Taken(of[j], kept[of[j]])

\* Only the end of a job's own context is called a cancel.
Causes ==
  \A j \in Jobs : (end[j] = "caller" \/ got[j] = "cancelled") => ctx[j] = "ended"

IInv == Typed /\ Held /\ WaitersHaveAReader /\ Followed /\ Causes /\ CancelIsOnesOwn

-----------------------------------------------------------------------------
(* The steps, said once.                                                   *)

JobNext(j) == Begin(j) \/ Get(j) \/ Transport(j) \/ TooLate(j) \/ EndContext(j)

LEMMA Start == Init => IInv
<1> SUFFICES ASSUME Init PROVE IInv
  OBVIOUS
<1>1. Typed
  BY RemoteAssumption DEF Init, Typed, Stages, Answers, Fetched, Remotes, None
<1>2. Held /\ Followed /\ Causes
  BY DEF Init, Held, Followed, Causes, None
<1>3. WaitersHaveAReader /\ CancelIsOnesOwn
  BY DEF Init, WaitersHaveAReader, Reader, CancelIsOnesOwn, None
<1> QED BY <1>1, <1>2, <1>3 DEF IInv

\* Types, for a host's call and for each step of a job.
LEMMA TypedHost == IInv /\ Host => Typed'
<1> SUFFICES ASSUME IInv, Host PROVE Typed'
  OBVIOUS
<1> USE DEF Typed, Answers, Fetched, requestVars, jobVars, readVars
<1>1. ASSUME NEW a \in Addresses, UseSource(a) PROVE Typed'
  <2>1. made' \in Seq(Addresses) /\ Len(made') = Len(made) + 1
    BY <1>1 DEF IInv, UseSource
  <2>2. kept' \in [Remotes -> Answers \union {Unread}]
    BY <1>1 DEF IInv, UseSource
  <2> QED BY <1>1, <2>1, <2>2, RemoteAssumption DEF IInv, UseSource
<1>2. CASE SourceOff
  BY <1>2 DEF IInv, SourceOff
<1> QED BY <1>1, <1>2 DEF Host

LEMMA TypedJob == ASSUME IInv, NEW j \in Jobs, JobNext(j) PROVE Typed'
<1> USE DEF Typed, Answers, Fetched, Stages, hostVars, readVars, requestVars, jobVars
<1>1. /\ Typed /\ RemoteAssumption
      /\ at[j] # "idle" => of[j] \in Remotes
  BY RemoteAssumption DEF IInv, Held, Remotes
<1>2. ASSUME NEW outcome, Returns(j, outcome), UNCHANGED <<hostVars, calls>>,
             reading' \in [Remotes -> BOOLEAN], kept' \in [Remotes -> Answers \union {Unread}]
      PROVE  Typed'
  BY <1>1, <1>2 DEF Returns, Moves
<1>3. ASSUME NEW d \in Answers, Told(j, d), UNCHANGED <<hostVars, calls>>,
             reading' \in [Remotes -> BOOLEAN], kept' \in [Remotes -> Answers \union {Unread}]
      PROVE  Typed'
  <2>1. CASE Returns(j, "refused")
    BY <1>2, <1>3, <2>1
  <2>2. CASE Moves(j, "tile") /\ doc' = [doc EXCEPT ![j] = d]
             /\ claimed' = [claimed EXCEPT ![j] = FALSE] /\ Ask(j) /\ UNCHANGED <<of, ctx>>
    <3>1. at' \in [Jobs -> Stages] /\ doc' \in [Jobs -> Answers \union {None}]
      BY <1>1, <1>3, <2>2 DEF Moves
    <3> QED BY <1>1, <1>3, <2>2, <3>1 DEF Ask
  <2> QED BY <1>3, <2>1, <2>2 DEF Told
<1>4. CASE Begin(j)
  BY <1>1, <1>4 DEF Begin
<1>5. CASE ClaimTold(j)
  BY <1>1, <1>3, <1>5 DEF ClaimTold
<1>6. CASE ClaimWait(j) \/ ReadUnclaimed(j) \/ Wake(j)
  BY <1>1, <1>6 DEF ClaimWait, ReadUnclaimed, Wake, Ask
<1>7. CASE ClaimRead(j)
  BY <1>1, <1>7 DEF ClaimRead, Ask
<1>8. CASE GiveUpWaiting(j)
  BY <1>1, <1>2, <1>8 DEF GiveUpWaiting
<1>9. CASE ReadFails(j)
  BY <1>1, <1>2, <1>9 DEF ReadFails, EndReading
<1>10. CASE ReadAnswers(j)
  <2>1. Answer(j) \in Answers
    BY <1>1, <1>10 DEF ReadAnswers, Answer
  <2> QED BY <1>1, <1>3, <1>10, <2>1 DEF ReadAnswers, EndReading
<1>11. CASE TileEnds(j)
  BY <1>1, <1>2, <1>11 DEF TileEnds
<1>12. CASE Transport(j)
  BY <1>1, <1>12, ZenonT(40) DEF Transport, Redirect, Reply, Fail, TransportError, Failures
<1>13. CASE TooLate(j) \/ EndContext(j)
  BY <1>1, <1>13 DEF TooLate, EndContext
<1> QED BY <1>4, <1>5, <1>6, <1>7, <1>8, <1>9, <1>10, <1>11, <1>12, <1>13 DEF JobNext, Get, Describe

-----------------------------------------------------------------------------
(* The rest of the invariant.                                              *)

\* A host that names a source makes a remote no job has.
LEMMA HostKeeps == IInv /\ Host => IInv'
<1> SUFFICES ASSUME IInv, Host PROVE IInv'
  OBVIOUS
<1>1. Typed /\ Held /\ WaitersHaveAReader /\ Followed /\ Causes /\ CancelIsOnesOwn /\ Typed'
  BY TypedHost DEF IInv
<1>2. UNCHANGED <<reading, requestVars, jobVars, ctx>>
  BY DEF Host, UseSource, SourceOff, readVars
<1>3. /\ Len(made) <= Len(made')
      /\ \A g \in 1..Len(made) : made'[g] = made[g] /\ kept'[g] = kept[g]
      /\ \A g \in Remotes : g > Len(made') => kept'[g] = kept[g]
  <2>1. ASSUME NEW a \in Addresses, UseSource(a) PROVE <1>3!:
    <3>1. /\ Len(made') = Len(made) + 1
          /\ \A g \in 1..Len(made) : made'[g] = made[g]
      BY <1>1, <2>1 DEF Typed, UseSource
    <3> QED BY <1>1, <2>1, <3>1, RemoteAssumption DEF Typed, UseSource, Remotes
  <2>2. CASE SourceOff
    BY <1>1, <2>2 DEF Typed, SourceOff, readVars
  <2> QED BY <2>1, <2>2 DEF Host
<1>4. Held'
  <2>1. Len(made) \in Nat /\ Len(made') \in Nat
    BY <1>1 DEF Typed
  <2>2. \A g \in Remotes : g > Len(made') => g > Len(made)
    BY <1>3, <2>1 DEF Remotes
  <2>3. \A g \in 1..Len(made) : g \in 1..Len(made')
    BY <1>3, <2>1
  <2> QED BY <1>1, <1>2, <1>3, <2>2, <2>3 DEF Held, jobVars
<1>5. WaitersHaveAReader' /\ Causes' /\ CancelIsOnesOwn'
  BY <1>1, <1>2 DEF WaitersHaveAReader, Reader, Causes, CancelIsOnesOwn, jobVars, requestVars
<1>6. Followed'
  BY <1>1, <1>2, <1>3 DEF Followed, Held, Taken, jobVars
<1> QED BY <1>1, <1>4, <1>5, <1>6 DEF IInv

\* A job that goes on to its tile, or back, ends the read it claimed, and
\* everyone that waited for it goes on.
LEMMA ReaderLeaves ==
  ASSUME IInv, NEW j \in Jobs, NEW place \in {"idle", "tile"}, at[j] # "idle",
         Moves(j, place), EndReading(j), claimed' = [claimed EXCEPT ![j] = FALSE],
         of' = of \/ (place = "idle" /\ of' = [of EXCEPT ![j] = 0]),
         UNCHANGED made, \A g \in Remotes : g > Len(made) => kept'[g] = kept[g]
  PROVE  Held' /\ WaitersHaveAReader'
<1>1. Typed /\ Held /\ WaitersHaveAReader /\ of[j] \in Remotes
  <2>1. of[j] \in 1..Len(made) /\ Len(made) \in Nat /\ Len(made) <= MaxRemotes
    BY DEF IInv, Held, Typed
  <2> QED BY <2>1, RemoteAssumption DEF IInv, Remotes
<1>2. /\ \A i \in Jobs : at'[i] = IF i = j THEN place
                                  ELSE IF i \in Waiters(j) THEN "woken" ELSE at[i]
      /\ \A i \in Jobs \ {j} : of'[i] = of[i] /\ claimed'[i] = claimed[i]
      /\ ~claimed'[j] /\ (place = "tile" => of'[j] = of[j])
  BY <1>1 DEF Moves, Typed
<1>3. Held'
  BY <1>1, <1>2 DEF Held, Waiters
<1>4. ASSUME NEW g \in Remotes
      PROVE  /\ reading'[g] <=> \E i \in Jobs : Reader(i, g)'
             /\ \A i, k \in Jobs : Reader(i, g)' /\ Reader(k, g)' => i = k
             /\ \A i \in Jobs : at'[i] = "waiting" /\ of'[i] = g => reading'[g]
  <2>1. \A i \in Jobs : Reader(i, g)' <=> i # j /\ Reader(i, g)
    BY <1>2 DEF Reader, Waiters
  <2>2. CASE claimed[j] /\ of[j] = g
    <3>1. Reader(j, g) /\ ~reading'[g]
      BY <1>1, <2>2 DEF Held, Reader, EndReading, Typed
    <3>2. \A i \in Jobs : at[i] = "waiting" /\ of[i] = g => i \in Waiters(j)
      BY <2>2 DEF Waiters
    <3> QED BY <1>1, <1>2, <2>1, <3>1, <3>2 DEF WaitersHaveAReader
  <2>3. CASE ~(claimed[j] /\ of[j] = g)
    <3>1. ~Reader(j, g) /\ reading'[g] = reading[g]
      BY <1>1, <2>3 DEF Reader, EndReading, Typed
    <3>2. \A i \in Jobs : at'[i] = "waiting" /\ of'[i] = g => at[i] = "waiting" /\ of[i] = g
      BY <1>2
    <3> QED BY <1>1, <1>4, <2>1, <3>1, <3>2 DEF WaitersHaveAReader
  <2> QED BY <2>2, <2>3
<1> QED BY <1>3, <1>4 DEF WaitersHaveAReader

\* What Get hands back is a cancel only if the job's own context ended.
LEMMA OwnReturn ==
  ASSUME IInv, NEW j \in Jobs, NEW outcome, Returns(j, outcome),
         outcome = "cancelled" => ctx[j] = "ended"
  PROVE  Causes' /\ CancelIsOnesOwn'
BY DEF IInv, Typed, Causes, CancelIsOnesOwn, Returns, None

\* A job that returns asks for no tile, and the others are told what they were.
LEMMA ReturnFollows ==
  ASSUME IInv, NEW j \in Jobs, NEW outcome, Returns(j, outcome), UNCHANGED made,
         \A g \in Remotes : kept[g] # Unread => kept'[g] = kept[g]
  PROVE  Followed'
<1>1. \A i \in Jobs : at[i] = "tile" => of[i] \in Remotes
  <2>1. Len(made) \in Nat /\ Len(made) <= MaxRemotes
    BY DEF IInv, Typed
  <2> QED BY <2>1, RemoteAssumption DEF IInv, Held, Remotes
<1>2. \A i \in Jobs : at'[i] = "tile" =>
        i # j /\ at[i] = "tile" /\ of'[i] = of[i] /\ doc'[i] = doc[i]
  BY DEF Returns, Moves, IInv, Typed
<1> QED BY <1>1, <1>2 DEF IInv, Followed, Taken

\* A job told of a document: it asks for the tile of it, or is refused.
LEMMA ToldKeeps ==
  ASSUME IInv, NEW j \in Jobs, NEW d \in Answers, Told(j, d), at[j] # "idle",
         EndReading(j), UNCHANGED made, of[j] \in Remotes, kept'[of[j]] = d,
         \A g \in Remotes : kept[g] # Unread => kept'[g] = kept[g],
         \A g \in Remotes : g > Len(made) => kept'[g] = kept[g]
  PROVE  Held' /\ WaitersHaveAReader' /\ Followed' /\ Causes' /\ CancelIsOnesOwn'
<1>1. CASE Returns(j, "refused")
  <2>1. Held' /\ WaitersHaveAReader'
    <3>1. Moves(j, "idle") /\ claimed' = [claimed EXCEPT ![j] = FALSE] /\ of' = [of EXCEPT ![j] = 0]
      BY <1>1 DEF Returns
    <3> QED BY <3>1, ReaderLeaves
  <2>2. Causes' /\ CancelIsOnesOwn'
    BY <1>1, OwnReturn
  <2>3. Followed'
    BY <1>1, ReturnFollows
  <2> QED BY <2>1, <2>2, <2>3
<1>2. CASE /\ Taken(of[j], d) /\ Moves(j, "tile") /\ doc' = [doc EXCEPT ![j] = d]
           /\ claimed' = [claimed EXCEPT ![j] = FALSE] /\ Ask(j) /\ UNCHANGED <<last, of, ctx>>
  <2>1. Held' /\ WaitersHaveAReader'
    BY <1>2, ReaderLeaves
  <2>2. Causes' /\ CancelIsOnesOwn'
    BY <1>2 DEF IInv, Typed, Causes, CancelIsOnesOwn, Ask, None
  <2>3. d # Unread
    BY DocumentAssumption DEF Answers, Unread, Directory
  <2>4. \A i \in Jobs : at[i] = "tile" => of[i] \in Remotes
    <3>1. Len(made) \in Nat /\ Len(made) <= MaxRemotes
      BY DEF IInv, Typed
    <3> QED BY <3>1, RemoteAssumption DEF IInv, Held, Remotes
  <2>5. \A i \in Jobs \ {j} : at'[i] = "tile" => at[i] = "tile" /\ doc'[i] = doc[i]
    BY <1>2 DEF IInv, Typed, Moves
  <2>6. doc'[j] = d /\ of' = of
    BY <1>2 DEF IInv, Typed
  <2>7. Followed'
    BY <1>2, <2>3, <2>4, <2>5, <2>6 DEF IInv, Followed, Taken
  <2> QED BY <2>1, <2>2, <2>7
<1> QED BY <1>1, <1>2 DEF Told

\* A job that comes back from Get with nothing kept anew.
LEMMA ReturnKeeps ==
  ASSUME IInv, NEW j \in Jobs, NEW outcome, Returns(j, outcome), at[j] # "idle",
         outcome = "cancelled" => ctx[j] = "ended", EndReading(j), UNCHANGED <<made, kept>>
  PROVE  Held' /\ WaitersHaveAReader' /\ Followed' /\ Causes' /\ CancelIsOnesOwn'
<1>1. Moves(j, "idle") /\ claimed' = [claimed EXCEPT ![j] = FALSE] /\ of' = [of EXCEPT ![j] = 0]
  BY DEF Returns
<1>2. Held' /\ WaitersHaveAReader'
  BY <1>1, ReaderLeaves
<1>3. Causes' /\ CancelIsOnesOwn'
  BY OwnReturn
<1>4. Followed'
  BY ReturnFollows
<1> QED BY <1>2, <1>3, <1>4

\* What the request of a job does touches its request only.
LEMMA RequestKeeps ==
  ASSUME IInv, NEW j \in Jobs, Transport(j) \/ TooLate(j) \/ EndContext(j)
  PROVE  Held' /\ WaitersHaveAReader' /\ Followed' /\ Causes' /\ CancelIsOnesOwn'
<1> USE DEF hostVars, readVars, jobVars
<1>1. UNCHANGED <<hostVars, readVars, jobVars>>
  BY DEF Transport, Redirect, Reply, Fail, TooLate, EndContext
<1>2. Held' /\ WaitersHaveAReader' /\ Followed' /\ CancelIsOnesOwn'
  BY <1>1 DEF IInv, Held, WaitersHaveAReader, Reader, Followed, Taken, CancelIsOnesOwn
<1>3. ASSUME \/ \E place \in Places : Redirect(j, place)
             \/ \E body \in Documents \union {"tile"} : Reply(j, body)
             \/ Fail(j)
      PROVE  Causes'
  <2>1. "cancelled" \notin Documents
    BY DocumentAssumption DEF Failures
  <2> QED BY <1>3, <2>1 DEF IInv, Typed, Causes, Redirect, Reply, Fail, TransportError
<1>4. ASSUME TooLate(j) \/ EndContext(j) PROVE Causes'
  BY <1>4 DEF IInv, Typed, Causes, TooLate, EndContext
<1> QED BY <1>2, <1>3, <1>4 DEF Transport

LEMMA JobKeeps == ASSUME IInv, NEW j \in Jobs, JobNext(j) PROVE IInv'
<1> USE DEF hostVars, readVars, requestVars
<1> DEFINE Rest == Held /\ WaitersHaveAReader /\ Followed /\ Causes /\ CancelIsOnesOwn
<1> SUFFICES Rest'
  BY TypedJob DEF IInv
<1>1. /\ Typed /\ Rest
      /\ at[j] # "idle" => of[j] \in Remotes
      /\ at[j] # "reading" => (reading' = reading => EndReading(j))
  <2>1. Len(made) \in Nat /\ Len(made) <= MaxRemotes
    BY DEF IInv, Typed
  <2>2. at[j] # "reading" => ~claimed[j]
    BY DEF IInv, Held
  <2> QED BY <2>1, <2>2, RemoteAssumption DEF IInv, Held, Remotes, EndReading
<1>2. CASE Begin(j)
  <2>1. /\ \A i \in Jobs : at'[i] = IF i = j THEN "claim" ELSE at[i]
        /\ \A i \in Jobs \ {j} : of'[i] = of[i]
        /\ of'[j] \in 1..Len(made)
    BY <1>1, <1>2 DEF Begin, Typed
  <2>2. Held' /\ Followed' /\ Causes' /\ CancelIsOnesOwn'
    BY <1>1, <1>2, <2>1 DEF Begin, Held, Followed, Taken, Causes, CancelIsOnesOwn
  <2>3. WaitersHaveAReader'
    BY <1>1, <1>2, <2>1 DEF Begin, WaitersHaveAReader, Reader
  <2> QED BY <2>2, <2>3
<1>3. CASE ClaimTold(j)
  <2>1. kept[of[j]] \in Answers
    BY <1>1, <1>3 DEF ClaimTold, Typed
  <2> QED BY <1>1, <1>3, <2>1, ToldKeeps DEF ClaimTold
<1>4. CASE ClaimWait(j) \/ Wake(j)
  <2>1. /\ \A i \in Jobs \ {j} : at'[i] = at[i]
        /\ at'[j] \in {"waiting", "claim"} /\ at[j] \in {"claim", "woken"}
        /\ at'[j] = "waiting" => reading[of[j]]
        /\ UNCHANGED <<made, kept, reading, of, claimed, doc, last, requestVars, ctx>>
    BY <1>1, <1>4 DEF ClaimWait, Wake, Typed
  <2>2. Held' /\ Followed' /\ Causes' /\ CancelIsOnesOwn'
    BY <1>1, <2>1 DEF Held, Followed, Taken, Causes, CancelIsOnesOwn
  <2>3. WaitersHaveAReader'
    BY <1>1, <2>1 DEF WaitersHaveAReader, Reader
  <2> QED BY <2>2, <2>3
<1>5. CASE ClaimRead(j)
  <2>1. /\ \A i \in Jobs \ {j} : at'[i] = at[i] /\ claimed'[i] = claimed[i]
        /\ at'[j] = "reading" /\ claimed'[j] /\ at[j] = "claim"
        /\ reading'[of[j]] /\ ~reading[of[j]]
        /\ \A g \in Remotes \ {of[j]} : reading'[g] = reading[g]
        /\ UNCHANGED <<made, kept, of, doc, last, ctx>> /\ Ask(j)
    BY <1>1, <1>5 DEF ClaimRead, Typed
  <2>2. Held' /\ Followed' /\ CancelIsOnesOwn'
    BY <1>1, <2>1 DEF Held, Followed, Taken, CancelIsOnesOwn
  <2>3. Causes'
    BY <1>1, <2>1 DEF Causes, Ask, Typed, None
  <2>4. WaitersHaveAReader'
    BY <1>1, <2>1 DEF WaitersHaveAReader, Reader
  <2> QED BY <2>2, <2>3, <2>4
<1>6. CASE ReadUnclaimed(j)
  <2>1. /\ \A i \in Jobs \ {j} : at'[i] = at[i]
        /\ at'[j] = "reading" /\ at[j] = "claim" /\ ~claimed[j]
        /\ UNCHANGED <<made, kept, reading, of, claimed, doc, last, ctx>> /\ Ask(j)
    BY <1>1, <1>6 DEF ReadUnclaimed, Typed, Held
  <2>2. Held' /\ Followed' /\ CancelIsOnesOwn'
    BY <1>1, <2>1 DEF Held, Followed, Taken, CancelIsOnesOwn
  <2>3. Causes'
    BY <1>1, <2>1 DEF Causes, Ask, Typed, None
  <2>4. WaitersHaveAReader'
    BY <1>1, <2>1 DEF WaitersHaveAReader, Reader
  <2> QED BY <2>2, <2>3, <2>4
<1>7. CASE GiveUpWaiting(j)
  BY <1>1, <1>7, ReturnKeeps DEF GiveUpWaiting
<1>8. CASE ReadFails(j)
  <2>1. Own(j) = "cancelled" => ctx[j] = "ended"
    BY <1>1 DEF Own, Causes
  <2> QED BY <1>8, <2>1, ReturnKeeps DEF ReadFails
<1>9. CASE ReadAnswers(j)
  <2>1. /\ Answer(j) \in Answers /\ kept'[of[j]] = Answer(j) /\ of[j] \in 1..Len(made)
        /\ \A g \in Remotes \ {of[j]} : kept'[g] = kept[g]
        /\ kept[of[j]] # Unread => kept'[of[j]] = kept[of[j]]
    BY <1>1, <1>9 DEF ReadAnswers, Answer, Answers, Typed, Held
  <2>2. \A g \in Remotes : g > Len(made) => kept'[g] = kept[g]
    BY <1>1, <2>1, RemoteAssumption DEF Typed, Remotes
  <2> QED BY <1>1, <1>9, <2>1, <2>2, ToldKeeps DEF ReadAnswers
<1>10. CASE TileEnds(j)
  <2>1. (IF got[j] = "tile" THEN "tile" ELSE Own(j)) = "cancelled" => ctx[j] = "ended"
    BY <1>1 DEF Own, Causes
  <2> QED BY <1>1, <1>10, <2>1, ReturnKeeps DEF TileEnds
<1> QED
  BY <1>2, <1>3, <1>4, <1>5, <1>6, <1>7, <1>8, <1>9, <1>10, RequestKeeps
     DEF JobNext, Get, Describe

-----------------------------------------------------------------------------
(* What holds of every behaviour.                                          *)

LEMMA Step == IInv /\ [Next]_vars => IInv'
<1> SUFFICES ASSUME IInv, [Next]_vars PROVE IInv'
  OBVIOUS
<1>1. CASE UNCHANGED vars
  BY <1>1 DEF vars, hostVars, readVars, requestVars, jobVars, IInv, Typed, Held,
     WaitersHaveAReader, Reader, Followed, Taken, Causes, CancelIsOnesOwn
<1>2. CASE Host
  BY <1>2, HostKeeps
<1>3. ASSUME NEW j \in Jobs, JobNext(j) PROVE IInv'
  BY <1>3, JobKeeps
<1> QED BY <1>1, <1>2, <1>3 DEF Next, JobNext

\* However readers and waiters interleave, a waiter waits on a read that is open
\* and an answer has its cause.
THEOREM Invariance == Spec => []IInv
BY Start, Step, PTL DEF Spec

\* Nobody waits on the channel of a reader that is gone, and no two jobs hold
\* the claim of one source (describe, claim and read of remote.go).
THEOREM OneReader == Spec => []WaitersHaveAReader
<1>1. IInv => WaitersHaveAReader
  BY DEF IInv
<1> QED BY <1>1, Invariance, PTL

\* Tiles are asked for by the document kept, and a cancel is the job's own
\* (read of remote.go, transportError of get.go).
THEOREM TrueAnswers == Spec => []AnswersAreTrue
<1>1. IInv => AnswersAreTrue
  BY DEF IInv, AnswersAreTrue, Followed, TilesFollowTheKept
<1> QED BY <1>1, Invariance, PTL

\* The first answer of a source stays its answer, also when the source is
\* named again, which makes another remote (read of remote.go, useSourceLocked).
THEOREM FirstAnswer == Spec => FirstAnswerStays
<1>1. ASSUME IInv, Next, NEW g \in Remotes, kept[g] # Unread PROVE kept'[g] = kept[g]
  <2>1. Typed /\ Held /\ Len(made) \in Nat
    BY <1>1 DEF IInv, Typed
  <2>2. ASSUME NEW a \in Addresses, UseSource(a) PROVE kept'[g] = kept[g]
    <3>1. g # Len(made) + 1
      BY <1>1, <2>1 DEF Held, Remotes
    <3> QED BY <2>1, <2>2, <3>1 DEF UseSource, Typed
  <2>3. CASE SourceOff
    BY <2>3 DEF SourceOff, readVars
  <2>4. ASSUME NEW j \in Jobs, JobNext(j) PROVE kept'[g] = kept[g]
    <3>1. CASE ReadAnswers(j)
      BY <1>1, <2>1, <3>1 DEF ReadAnswers, Answer, Typed
    <3>2. CASE ~ReadAnswers(j)
      BY <2>4, <3>2 DEF JobNext, Begin, Get, Describe, ClaimTold, ClaimWait, ClaimRead,
         ReadUnclaimed, Wake, GiveUpWaiting, ReadFails, TileEnds, Transport, Redirect,
         Reply, Fail, TooLate, EndContext, readVars
    <3> QED BY <3>1, <3>2
  <2> QED BY <1>1, <2>2, <2>3, <2>4 DEF Next, Host, JobNext
<1>2. IInv /\ [Next]_vars => [\A g \in Remotes : kept[g] # Unread => kept'[g] = kept[g]]_vars
  BY <1>1
<1> QED BY <1>2, Invariance, PTL DEF Spec, FirstAnswerStays

-----------------------------------------------------------------------------
(***************************************************************************)
(* Radar loops, for any maps, overlays, files, legends, goroutines and     *)
(* caps.                                                                   *)
(*                                                                         *)
(* A picture may come from a file decoded for it, from the readings that   *)
(* maps share, or from the loop it replaces. What makes it this frame's is *)
(* that each of those says in its key all that its reading depends on      *)
(* (Truly, KeyTells), from the job that reads to the pictures kept as a    *)
(* stand-in (LoopInv). The same invariant has every picture of a version   *)
(* land at once, which is why a moment always finds one.                   *)
(***************************************************************************)

-----------------------------------------------------------------------------
(* Tables of a value per map and id, and sequences.                        *)

IsTable(t) == t = [m \in LoopMaps |-> [id \in LoopIds |-> t[m][id]]]

PutIn(t, m, id, v) == [t EXCEPT ![m][id] = v]

LEMMA TableSet ==
    ASSUME NEW t, IsTable(t), NEW m \in LoopMaps, NEW id \in LoopIds, NEW v
    PROVE  /\ IsTable(PutIn(t, m, id, v)) /\ PutIn(t, m, id, v)[m][id] = v
           /\ \A k \in LoopMaps, i \in LoopIds :
                 ~(k = m /\ i = id) => PutIn(t, m, id, v)[k][i] = t[k][i]
<1> DEFINE u == PutIn(t, m, id, v)
<1>1. t = [k \in LoopMaps |-> t[k]] /\ \A k \in LoopMaps : t[k] = [i \in LoopIds |-> t[k][i]]
  BY DEF IsTable
<1>2. u = [k \in LoopMaps |-> IF k = m THEN [t[m] EXCEPT ![id] = v] ELSE t[k]]
  BY <1>1 DEF PutIn
<1> HIDE DEF u
<1>3. u[m] = [i \in LoopIds |-> IF i = id THEN v ELSE t[m][i]]
  BY <1>1, <1>2
<1>4. \A k \in LoopMaps \ {m} : u[k] = t[k]
  BY <1>2
<1>5. \A k \in LoopMaps : u[k] = [i \in LoopIds |-> u[k][i]]
  BY <1>1, <1>3, <1>4
<1>6. u = [k \in LoopMaps |-> u[k]]
  BY <1>2
<1>7. IsTable(u)
  BY <1>5, <1>6 DEF IsTable
<1> QED
  BY <1>3, <1>4, <1>7 DEF u

IsSeq(s) == \E S : s \in Seq(S)

LEMMA SeqGrows ==
    ASSUME NEW s, IsSeq(s), NEW x
    PROVE  /\ IsSeq(Append(s, x)) /\ Len(Append(s, x)) = Len(s) + 1
           /\ Len(s) \in Nat /\ DOMAIN s = 1..Len(s)
           /\ DOMAIN Append(s, x) = 1..(Len(s) + 1)
           /\ \A i \in 1..Len(s) : Append(s, x)[i] = s[i]
           /\ Append(s, x)[Len(s) + 1] = x
<1>1. PICK S : s \in Seq(S)
  BY DEF IsSeq
<1> DEFINE T == S \cup {x}
<1>2. s \in Seq(T) /\ x \in T
  BY <1>1
<1> HIDE DEF T
<1>3. Append(s, x) \in Seq(T)
  BY <1>2
<1> QED
  BY <1>2, <1>3 DEF IsSeq

-----------------------------------------------------------------------------
(* What a key says of a reading.                                           *)

\* A reading is what its key says: the file, read with all the key names.
Truly(key, seen) ==
    seen = ReadingOf([table |-> key[2], provider |-> key[6], breaks |-> key[3],
                         tolerance |-> IF key[5] THEN 0 ELSE key[4]], key[1])

LEMMA KeyTells ==
    ASSUME NEW img, NEW file, NEW kind
    PROVE  \A seen : Truly(KeyOf(img, file, kind), seen) <=>
                           seen = ReadingOf(HowOf(img, kind), file)
BY DEF Truly, KeyOf, HowOf

FileOf(img, i) == IF IsLoop(img) THEN img.frames[i].file ELSE img.file

\* A picture is its file's reading, and says so in its key; what is not ready
\* is a gap's.
IsPictureOf(img, i, p) ==
    /\ p.ready => /\ p.reading = ReadingOf(HowOf(img, img.kind), FileOf(img, i))
                  /\ p.key # NoKey => Truly(p.key[1], p.reading)
    /\ (IsLoop(img) /\ img.frames[i].gap) \/ p.ready

PicturesAre(img, pics) ==
    IsSeq(pics) /\ \A i \in DOMAIN pics : IsPictureOf(img, i, pics[i])

FramesOf(img) == IF IsLoop(img) THEN Len(img.frames) ELSE 1

\* An image accepted: of the types there are, with a picture in it.
HasPicture(img) ==
    img \in Images /\ (IsLoop(img) => \E i \in DOMAIN img.frames : ~img.frames[i].gap)

\* All the pictures of an image.
AllOf(img, pics) == PicturesAre(img, pics) /\ Len(pics) = FramesOf(img)

\* What is kept for an overlay: the pictures landed are all of its version's,
\* what stands in is all of its own, and a spare frame is what its key says.
LoopIs(m, id) ==
    /\ loops[m][id] = NoLoop =>
          landedPics[m][id] = <<>> /\ stands[m][id] = NoStand
    /\ loops[m][id] # NoLoop =>
          loops[m][id].n \in 1..handIns /\ HasPicture(loops[m][id].img)
    /\ landedPics[m][id] # <<>> => AllOf(loops[m][id].img, landedPics[m][id])
    /\ stands[m][id] # NoStand =>
          /\ HasPicture(stands[m][id].img)
          /\ AllOf(stands[m][id].img, stands[m][id].pics)
    /\ \A p \in spares[m][id] : p.ready /\ Truly(p.key[1], p.reading)

\* A job has read the first frames of its version, which has its number alone.
JobIs(r) ==
    LET j == readJob[r]
    IN  Busy(r) =>
        /\ j = [stage |-> j.stage, map |-> j.map, id |-> j.id, n |-> j.n,
                img |-> j.img, got |-> j.got]
        /\ j.map \in LoopMaps /\ j.id \in LoopIds /\ j.n \in 1..handIns
        /\ HasPicture(j.img)
        /\ loops[j.map][j.id].n = j.n => loops[j.map][j.id].img = j.img
        /\ PicturesAre(j.img, j.got)
        /\ Len(j.got) <= FramesOf(j.img)
        /\ j.stage = "decode" => Len(j.got) < FramesOf(j.img)

ReadingsAre == IsSeq(readings) /\ \A i \in DOMAIN readings : Truly(readings[i].key, readings[i].reading)

LoopTables ==
    /\ handIns \in Nat
    /\ IsTable(loops) /\ IsTable(landedPics) /\ IsTable(spares) /\ IsTable(stands)
    /\ readJob = [r \in Readers |-> readJob[r]]

LoopInv ==
    /\ LoopTables
    /\ \A m \in LoopMaps, id \in LoopIds : LoopIs(m, id)
    /\ \A r \in Readers : JobIs(r)
    /\ ReadingsAre

\* What a step leaves of an overlay or a job stays as it is.
LEMMA LoopStays ==
    ASSUME LoopInv, handIns' \in Nat, handIns' >= handIns, NEW m \in LoopMaps, NEW id \in LoopIds,
           loops'[m][id] = loops[m][id], landedPics'[m][id] = landedPics[m][id],
           stands'[m][id] = stands[m][id], spares'[m][id] \subseteq spares[m][id]
    PROVE  LoopIs(m, id)'
<1>1. LoopIs(m, id) /\ handIns \in Nat
  BY DEF LoopInv, LoopTables
<1>2. loops[m][id] # NoLoop => loops[m][id].n \in 1..handIns'
  BY <1>1 DEF LoopIs
<1> QED
  BY <1>1, <1>2 DEF LoopIs

LEMMA JobStays ==
    ASSUME LoopInv, handIns' \in Nat, handIns' >= handIns, NEW r \in Readers,
           readJob'[r] = readJob[r],
           Busy(r) => loops'[readJob[r].map][readJob[r].id] = loops[readJob[r].map][readJob[r].id]
    PROVE  JobIs(r)'
<1>1. JobIs(r) /\ handIns \in Nat
  BY DEF LoopInv, LoopTables
<1>2. Busy(r)' <=> Busy(r)
  BY DEF Busy
<1>3. Busy(r) => readJob[r].n \in 1..handIns'
  BY <1>1 DEF JobIs
<1> QED
  BY <1>1, <1>2, <1>3 DEF JobIs

\* Steps of the host that touch no picture.
LEMMA HostLoops ==
    ASSUME LoopInv,
           \/ TickWall \/ UNCHANGED loopVars
           \/ \E m \in LoopMaps :
                 \/ TakeLoopWarnings(m) \/ DropSpareFrames(m)
                 \/ \E bytes \in Budgets : SetBudget(m, bytes)
                 \/ \E id \in LoopIds, img \in LoopOffers : RefuseLoop(m, id, img)
    PROVE  LoopInv'
<1>1. /\ handIns' \in Nat /\ handIns' >= handIns
      /\ UNCHANGED <<loops, landedPics, stands, readJob>>
      /\ readings' = readings \/ readings' = <<>>
      /\ \/ spares' = spares
         \/ \E m \in LoopMaps : spares' = [spares EXCEPT ![m] = [id \in LoopIds |-> {}]]
  <2>1. handIns \in Nat
    BY DEF LoopInv, LoopTables
  <2> QED
    BY <2>1 DEF TickWall, loopVars, TakeLoopWarnings, DropSpareFrames, SetBudget, RefuseLoop
<1>2. /\ IsTable(spares')
      /\ \A m \in LoopMaps, id \in LoopIds : spares'[m][id] \subseteq spares[m][id]
  <2>1. CASE spares' = spares
    BY <2>1 DEF LoopInv, LoopTables
  <2>2. ASSUME NEW m \in LoopMaps, spares' = [spares EXCEPT ![m] = [id \in LoopIds |-> {}]]
        PROVE  /\ IsTable(spares')
               /\ \A k \in LoopMaps, id \in LoopIds : spares'[k][id] \subseteq spares[k][id]
    <3>1. spares = [k \in LoopMaps |-> spares[k]]
      BY DEF LoopInv, LoopTables, IsTable
    <3>2. \A k \in LoopMaps : spares[k] = [id \in LoopIds |-> spares[k][id]]
      BY DEF LoopInv, LoopTables, IsTable
    <3>3. spares' = [k \in LoopMaps |-> IF k = m THEN [id \in LoopIds |-> {}] ELSE spares[k]]
      BY <2>2, <3>1
    <3>4. \A k \in LoopMaps : spares'[k] = [id \in LoopIds |-> spares'[k][id]]
      BY <3>2, <3>3
    <3>5. spares' = [k \in LoopMaps |-> spares'[k]]
      BY <3>3
    <3>6. IsTable(spares')
      BY <3>4, <3>5 DEF IsTable
    <3> QED
      BY <3>3, <3>6
  <2> QED
    BY <1>1, <2>1, <2>2
<1>3. LoopTables'
  BY <1>1, <1>2 DEF LoopInv, LoopTables
<1>4. \A m \in LoopMaps, id \in LoopIds : LoopIs(m, id)'
  BY <1>1, <1>2, LoopStays
<1>5. \A r \in Readers : JobIs(r)'
  BY <1>1, JobStays
<1>6. ReadingsAre'
  <2>1. <<>> \in Seq({}) /\ DOMAIN <<>> = {}
    OBVIOUS
  <2> QED
    BY <1>1, <2>1 DEF LoopInv, ReadingsAre, IsSeq
<1> QED
  BY <1>3, <1>4, <1>5, <1>6 DEF LoopInv

LEMMA InitLoops == LoopInit => LoopInv
<1> SUFFICES ASSUME LoopInit PROVE LoopInv
  OBVIOUS
<1>1. /\ handIns = 0 /\ readings = <<>>
      /\ loops = [m \in LoopMaps |-> [id \in LoopIds |-> NoLoop]]
      /\ landedPics = [m \in LoopMaps |-> [id \in LoopIds |-> <<>>]]
      /\ spares = [m \in LoopMaps |-> [id \in LoopIds |-> {}]]
      /\ stands = [m \in LoopMaps |-> [id \in LoopIds |-> NoStand]]
      /\ readJob = [r \in Readers |-> NoneRead]
  BY DEF LoopInit
<1>2. LoopTables
  BY <1>1 DEF LoopTables, IsTable
<1>3. \A m \in LoopMaps, id \in LoopIds : LoopIs(m, id)
  BY <1>1 DEF LoopIs
<1>4. \A r \in Readers : JobIs(r)
  BY <1>1 DEF JobIs, Busy
<1>5. ReadingsAre
  <2>1. <<>> \in Seq({}) /\ DOMAIN <<>> = {}
    OBVIOUS
  <2> QED
    BY <1>1, <2>1 DEF ReadingsAre, IsSeq
<1> QED
  BY <1>2, <1>3, <1>4, <1>5 DEF LoopInv

\* What is kept of an image allowed has a picture.
LEMMA CopiedHasPicture ==
    ASSUME NEW img \in LoopOffers, Allowed(img)
    PROVE  HasPicture(Copied(img))
<1>1. img \in Images
  BY LoopAssumption DEF LoopAssumption
<1>2. /\ Copied(img) \in Images
      /\ Copied(img).frames = img.frames
  <2>1. CASE img.table # <<>>
    <3>1. Copied(img) = [img EXCEPT !.provider = 0]
      BY <2>1 DEF Copied
    <3> QED
      BY <1>1, <3>1 DEF Images
  <2>2. CASE img.table = <<>> /\ img.provider \in DOMAIN Legends
    <3>1. Copied(img) = [img EXCEPT !.table = Legends[img.provider].table]
      BY <2>2 DEF Copied
    <3>2. Legends[img.provider].table \in Seq(TableEntries)
      BY <2>2, LoopAssumption DEF LoopAssumption
    <3> QED
      BY <1>1, <3>1, <3>2 DEF Images
  <2>3. CASE img.table = <<>> /\ img.provider \notin DOMAIN Legends
    BY <1>1, <2>3 DEF Copied
  <2> QED
    BY <2>1, <2>2, <2>3
<1>3. ASSUME IsLoop(img) PROVE \E i \in DOMAIN img.frames : ~img.frames[i].gap
  <2>1. {f.file : f \in {g \in Range(img.frames) : ~g.gap}} # {}
    BY <1>3 DEF Allowed, checkPictures, PicturesOf
  <2>2. PICK f \in Range(img.frames) : ~f.gap
    BY <2>1
  <2> QED
    BY <2>2 DEF Range
<1> QED
  BY <1>2, <1>3 DEF HasPicture, IsLoop

LEMMA HandInLoops ==
    ASSUME LoopInv, NEW m \in LoopMaps, NEW id \in LoopIds, NEW img \in LoopOffers,
           HandInLoop(m, id, img)
    PROVE  LoopInv'
<1> DEFINE new == [n |-> handIns', img |-> Copied(img)]
<1>1. /\ handIns' = handIns + 1 /\ handIns \in Nat
      /\ spares' = PutIn(spares, m, id, SpareFrames(m, id, img))
      /\ stands' = PutIn(stands, m, id, StandPictures(m, id))
      /\ landedPics' = PutIn(landedPics, m, id, <<>>)
      /\ loops' = PutIn(loops, m, id, new)
      /\ UNCHANGED <<readings, readJob>> /\ Allowed(img)
  BY DEF HandInLoop, LoopInv, LoopTables, PutIn
<1>2. /\ IsTable(loops) /\ IsTable(landedPics) /\ IsTable(spares) /\ IsTable(stands)
      /\ readJob = [r \in Readers |-> readJob[r]] /\ LoopIs(m, id)
  BY DEF LoopInv, LoopTables
<1> HIDE DEF new
<1>3. /\ IsTable(loops') /\ loops'[m][id] = new
      /\ \A k \in LoopMaps, i \in LoopIds : ~(k = m /\ i = id) => loops'[k][i] = loops[k][i]
  BY <1>1, <1>2, TableSet
<1>4. /\ IsTable(landedPics') /\ landedPics'[m][id] = <<>>
      /\ \A k \in LoopMaps, i \in LoopIds : ~(k = m /\ i = id) => landedPics'[k][i] = landedPics[k][i]
  BY <1>1, <1>2, TableSet
<1>5. /\ IsTable(spares') /\ spares'[m][id] = SpareFrames(m, id, img)
      /\ \A k \in LoopMaps, i \in LoopIds : ~(k = m /\ i = id) => spares'[k][i] = spares[k][i]
  BY <1>1, <1>2, TableSet
<1>6. /\ IsTable(stands') /\ stands'[m][id] = StandPictures(m, id)
      /\ \A k \in LoopMaps, i \in LoopIds : ~(k = m /\ i = id) => stands'[k][i] = stands[k][i]
  BY <1>1, <1>2, TableSet
<1>7. new.n = handIns + 1 /\ new.img = Copied(img) /\ new # NoLoop
  BY <1>1 DEF new, NoLoop
<1>8. StandPictures(m, id) # NoStand =>
         /\ HasPicture(StandPictures(m, id).img)
         /\ AllOf(StandPictures(m, id).img, StandPictures(m, id).pics)
  BY <1>2 DEF StandPictures, LoopIs
<1>9. \A p \in SpareFrames(m, id, img) : p.ready /\ Truly(p.key[1], p.reading)
  <2> SUFFICES ASSUME NEW p \in SpareFrames(m, id, img)
               PROVE  p.ready /\ Truly(p.key[1], p.reading)
    OBVIOUS
  <2>1. CASE p \in spares[m][id]
    BY <1>2, <2>1 DEF LoopIs
  <2>2. CASE p \in Range(landedPics[m][id]) /\ p.ready /\ p.key # NoKey
    <3>1. PICK i \in DOMAIN landedPics[m][id] : p = landedPics[m][id][i]
      BY <2>2 DEF Range
    <3>2. landedPics[m][id] # <<>>
      <4>1. DOMAIN <<>> = {}
        OBVIOUS
      <4> QED
        BY <3>1, <4>1
    <3>3. PicturesAre(loops[m][id].img, landedPics[m][id])
      BY <1>2, <3>2 DEF LoopIs, AllOf
    <3>4. IsPictureOf(loops[m][id].img, i, p)
      BY <3>1, <3>3 DEF PicturesAre
    <3> QED
      BY <2>2, <3>4 DEF IsPictureOf
  <2> QED
    BY <2>1, <2>2 DEF SpareFrames
<1>10. LoopTables'
  BY <1>1, <1>2, <1>3, <1>4, <1>5, <1>6 DEF LoopTables
<1>11. ASSUME NEW k \in LoopMaps, NEW i \in LoopIds PROVE LoopIs(k, i)'
  <2>1. CASE k = m /\ i = id
    <3>1. HasPicture(loops'[m][id].img) /\ loops'[m][id].n \in 1..handIns'
      BY <1>1, <1>3, <1>7, CopiedHasPicture
    <3> QED
      BY <1>3, <1>4, <1>5, <1>6, <1>7, <1>8, <1>9, <2>1, <3>1 DEF LoopIs
  <2>2. CASE ~(k = m /\ i = id)
    <3>1. /\ loops'[k][i] = loops[k][i] /\ landedPics'[k][i] = landedPics[k][i]
          /\ stands'[k][i] = stands[k][i] /\ spares'[k][i] = spares[k][i]
      BY <1>3, <1>4, <1>5, <1>6, <2>2
    <3> QED
      BY <1>1, <3>1, LoopStays
  <2> QED
    BY <2>1, <2>2
<1>12. ASSUME NEW r \in Readers PROVE JobIs(r)'
  <2>1. readJob'[r] = readJob[r] /\ JobIs(r)
    BY <1>1 DEF LoopInv
  <2>2. CASE Busy(r) /\ readJob[r].map = m /\ readJob[r].id = id
    <3>1. readJob[r].n \in 1..handIns
      BY <2>1, <2>2 DEF JobIs
    <3>2. loops'[readJob[r].map][readJob[r].id].n # readJob[r].n
      BY <1>1, <1>3, <1>7, <2>2, <3>1
    <3>3. readJob[r].n \in 1..handIns'
      BY <1>1, <3>1
    <3> QED
      BY <2>1, <2>2, <3>2, <3>3 DEF JobIs, Busy
  <2>3. CASE ~(Busy(r) /\ readJob[r].map = m /\ readJob[r].id = id)
    <3>1. Busy(r) => loops'[readJob[r].map][readJob[r].id] = loops[readJob[r].map][readJob[r].id]
      BY <1>3, <2>1, <2>3 DEF JobIs
    <3> QED
      BY <1>1, <2>1, <3>1, JobStays
  <2> QED
    BY <2>2, <2>3
<1>13. ReadingsAre'
  BY <1>1 DEF LoopInv, ReadingsAre
<1> QED
  BY <1>10, <1>11, <1>12, <1>13 DEF LoopInv

LEMMA DropLoops ==
    ASSUME LoopInv, NEW m \in LoopMaps, NEW id \in LoopIds, DropLoop(m, id)
    PROVE  LoopInv'
<1>1. /\ handIns' = handIns /\ handIns \in Nat
      /\ spares' = PutIn(spares, m, id, {})
      /\ stands' = PutIn(stands, m, id, NoStand)
      /\ landedPics' = PutIn(landedPics, m, id, <<>>)
      /\ loops' = PutIn(loops, m, id, NoLoop)
      /\ UNCHANGED <<readings, readJob>>
  BY DEF DropLoop, LoopInv, LoopTables, PutIn
<1>2. /\ IsTable(loops) /\ IsTable(landedPics) /\ IsTable(spares) /\ IsTable(stands)
      /\ readJob = [r \in Readers |-> readJob[r]]
  BY DEF LoopInv, LoopTables
<1>3. /\ IsTable(loops') /\ loops'[m][id] = NoLoop
      /\ \A k \in LoopMaps, i \in LoopIds : ~(k = m /\ i = id) => loops'[k][i] = loops[k][i]
  BY <1>1, <1>2, TableSet
<1>4. /\ IsTable(landedPics') /\ landedPics'[m][id] = <<>>
      /\ \A k \in LoopMaps, i \in LoopIds : ~(k = m /\ i = id) => landedPics'[k][i] = landedPics[k][i]
  BY <1>1, <1>2, TableSet
<1>5. /\ IsTable(spares') /\ spares'[m][id] = {}
      /\ \A k \in LoopMaps, i \in LoopIds : ~(k = m /\ i = id) => spares'[k][i] = spares[k][i]
  BY <1>1, <1>2, TableSet
<1>6. /\ IsTable(stands') /\ stands'[m][id] = NoStand
      /\ \A k \in LoopMaps, i \in LoopIds : ~(k = m /\ i = id) => stands'[k][i] = stands[k][i]
  BY <1>1, <1>2, TableSet
<1>7. LoopTables'
  BY <1>1, <1>2, <1>3, <1>4, <1>5, <1>6 DEF LoopTables
<1>8. ASSUME NEW k \in LoopMaps, NEW i \in LoopIds PROVE LoopIs(k, i)'
  <2>1. CASE k = m /\ i = id
    BY <1>3, <1>4, <1>5, <1>6, <2>1 DEF LoopIs
  <2>2. CASE ~(k = m /\ i = id)
    <3>1. /\ loops'[k][i] = loops[k][i] /\ landedPics'[k][i] = landedPics[k][i]
          /\ stands'[k][i] = stands[k][i] /\ spares'[k][i] = spares[k][i]
      BY <1>3, <1>4, <1>5, <1>6, <2>2
    <3> QED
      BY <1>1, <3>1, LoopStays
  <2> QED
    BY <2>1, <2>2
<1>9. ASSUME NEW r \in Readers PROVE JobIs(r)'
  <2>1. readJob'[r] = readJob[r] /\ JobIs(r)
    BY <1>1 DEF LoopInv
  <2>2. CASE Busy(r) /\ readJob[r].map = m /\ readJob[r].id = id
    <3>1. readJob[r].n \in 1..handIns
      BY <2>1, <2>2 DEF JobIs
    <3>2. loops'[readJob[r].map][readJob[r].id].n # readJob[r].n
      BY <1>1, <1>3, <2>2, <3>1 DEF NoLoop
    <3> QED
      BY <1>1, <2>1, <2>2, <3>2 DEF JobIs, Busy
  <2>3. CASE ~(Busy(r) /\ readJob[r].map = m /\ readJob[r].id = id)
    <3>1. Busy(r) => loops'[readJob[r].map][readJob[r].id] = loops[readJob[r].map][readJob[r].id]
      BY <1>3, <2>1, <2>3 DEF JobIs
    <3> QED
      BY <1>1, <2>1, <3>1, JobStays
  <2> QED
    BY <2>2, <2>3
<1>10. ReadingsAre'
  BY <1>1 DEF LoopInv, ReadingsAre
<1> QED
  BY <1>7, <1>8, <1>9, <1>10 DEF LoopInv

\* A reader's step that keeps nothing for an overlay.
LEMMA ReaderSteps ==
    ASSUME LoopInv, UNCHANGED <<handIns, loops, landedPics, spares, stands>>,
           NEW r \in Readers, NEW j, readJob' = [readJob EXCEPT ![r] = j],
           readJob'[r] = j => JobIs(r)', ReadingsAre'
    PROVE  LoopInv'
<1>1. readJob = [x \in Readers |-> readJob[x]] /\ handIns \in Nat
  BY DEF LoopInv, LoopTables
<1>2. /\ readJob' = [x \in Readers |-> readJob'[x]]
      /\ readJob'[r] = j /\ \A x \in Readers \ {r} : readJob'[x] = readJob[x]
  BY <1>1
<1>3. LoopTables'
  BY <1>2 DEF LoopInv, LoopTables
<1>4. \A m \in LoopMaps, id \in LoopIds : LoopIs(m, id)'
  BY <1>1, LoopStays
<1>5. \A x \in Readers : JobIs(x)'
  BY <1>1, <1>2, JobStays
<1> QED
  BY <1>3, <1>4, <1>5 DEF LoopInv

LEMMA ReadLoops ==
    ASSUME LoopInv, NEW r \in Readers, NEW m \in LoopMaps, NEW id \in LoopIds, ReadLoop(r, m, id)
    PROVE  LoopInv'
<1> DEFINE j == [stage |-> "frame", map |-> m, id |-> id, n |-> loops[m][id].n,
                 img |-> loops[m][id].img, got |-> <<>>]
<1>1. /\ readJob' = [readJob EXCEPT ![r] = j]
      /\ UNCHANGED <<handIns, loops, landedPics, spares, stands, readings>>
      /\ loops[m][id] # NoLoop
  BY DEF ReadLoop
<1>2. loops[m][id].n \in 1..handIns /\ HasPicture(loops[m][id].img)
  BY <1>1 DEF LoopInv, LoopIs
<1>3. PicturesAre(loops[m][id].img, <<>>) /\ Len(<<>>) = 0
  <2>1. <<>> \in Seq({}) /\ DOMAIN <<>> = {}
    OBVIOUS
  <2> QED
    BY <2>1 DEF PicturesAre, IsSeq
<1>4. FramesOf(loops[m][id].img) \in Nat
  BY <1>2 DEF FramesOf, HasPicture, Images
<1>5. readJob'[r] = j => JobIs(r)'
  <2> SUFFICES ASSUME readJob'[r] = j PROVE JobIs(r)'
    OBVIOUS
  <2>1. /\ j = [stage |-> j.stage, map |-> j.map, id |-> j.id, n |-> j.n,
                img |-> j.img, got |-> j.got]
        /\ j.map = m /\ j.id = id /\ j.n = loops[m][id].n /\ j.img = loops[m][id].img
        /\ j.got = <<>> /\ j.stage = "frame"
    OBVIOUS
  <2> HIDE DEF j
  <2> QED
    BY <1>1, <1>2, <1>3, <1>4, <2>1 DEF JobIs
<1>6. ReadingsAre'
  BY <1>1 DEF LoopInv, ReadingsAre
<1> HIDE DEF j
<1> QED
  BY <1>1, <1>5, <1>6, ReaderSteps

LEMMA FailLoops ==
    ASSUME LoopInv, NEW r \in Readers, ReadLoopFails(r)
    PROVE  LoopInv'
<1>1. /\ readJob' = [readJob EXCEPT ![r] = NoneRead]
      /\ UNCHANGED <<handIns, loops, landedPics, spares, stands, readings>>
  BY DEF ReadLoopFails
<1>2. readJob'[r] = NoneRead => JobIs(r)'
  BY DEF JobIs, Busy
<1>3. ReadingsAre'
  BY <1>1 DEF LoopInv, ReadingsAre
<1> QED
  BY <1>1, <1>2, <1>3, ReaderSteps

LEMMA JobGrows ==
    ASSUME NEW pic, NEW j, j = [stage |-> j.stage, map |-> j.map, id |-> j.id, n |-> j.n,
                                img |-> j.img, got |-> j.got]
    PROVE  [j EXCEPT !.stage = "frame", !.got = Append(j.got, pic)] =
              [stage |-> "frame", map |-> j.map, id |-> j.id, n |-> j.n, img |-> j.img,
               got |-> Append(j.got, pic)]
<1> DEFINE more == Append(j.got, pic)
           k == [j EXCEPT !.stage = "frame", !.got = more]
<1>1. j \in [stage : {j.stage}, map : {j.map}, id : {j.id}, n : {j.n}, img : {j.img}, got : {j.got}]
  BY Zenon
<1> HIDE DEF more
<1>2. k \in [stage : {"frame"}, map : {j.map}, id : {j.id}, n : {j.n}, img : {j.img}, got : {more}]
  BY <1>1
<1> HIDE DEF k
<1>3. k = [stage |-> "frame", map |-> j.map, id |-> j.id, n |-> j.n, img |-> j.img, got |-> more]
  BY <1>2
<1> QED
  BY <1>3 DEF k, more

\* The next picture of a job, if it is what it should be, is added to those
\* it has.
LEMMA GotMore ==
    ASSUME LoopInv, UNCHANGED <<handIns, loops, landedPics, spares, stands>>,
           NEW r \in Readers, Busy(r), NEW pic, Got(r, pic), ReadingsAre',
           Len(readJob[r].got) < FramesOf(readJob[r].img),
           IsPictureOf(readJob[r].img, Len(readJob[r].got) + 1, pic)
    PROVE  LoopInv'
<1> DEFINE j == readJob[r]
           k == [stage |-> "frame", map |-> j.map, id |-> j.id, n |-> j.n, img |-> j.img,
                 got |-> Append(j.got, pic)]
<1>2. JobIs(r)
  BY DEF LoopInv
<1>1. readJob' = [readJob EXCEPT ![r] = k]
  <2>1. j = [stage |-> j.stage, map |-> j.map, id |-> j.id, n |-> j.n,
             img |-> j.img, got |-> j.got]
    BY <1>2 DEF JobIs
  <2>2. [readJob[r] EXCEPT !.stage = "frame", !.got = Append(readJob[r].got, pic)] = k
    BY <2>1, JobGrows, Zenon
  <2>3. readJob' = [readJob EXCEPT ![r] =
           [readJob[r] EXCEPT !.stage = "frame", !.got = Append(readJob[r].got, pic)]]
    BY DEF Got, Job
  <2> HIDE DEF k
  <2> QED
    BY <2>2, <2>3
<1>4. /\ k = [stage |-> k.stage, map |-> k.map, id |-> k.id, n |-> k.n,
              img |-> k.img, got |-> k.got]
      /\ k.map = j.map /\ k.id = j.id /\ k.n = j.n /\ k.img = j.img
      /\ k.stage = "frame" /\ k.got = Append(j.got, pic)
  OBVIOUS
<1>5. PicturesAre(j.img, j.got) /\ IsSeq(j.got)
  BY <1>2 DEF JobIs, PicturesAre
<1> HIDE DEF k
<1>6. /\ PicturesAre(k.img, k.got) /\ Len(k.got) = Len(j.got) + 1 /\ Len(j.got) \in Nat
  <2>1. /\ IsSeq(k.got) /\ Len(k.got) = Len(j.got) + 1
        /\ Len(j.got) \in Nat /\ DOMAIN j.got = 1..Len(j.got)
        /\ DOMAIN k.got = 1..(Len(j.got) + 1)
        /\ \A i \in 1..Len(j.got) : k.got[i] = j.got[i]
        /\ k.got[Len(j.got) + 1] = pic
    BY <1>4, <1>5, SeqGrows
  <2>2. ASSUME NEW i \in DOMAIN k.got PROVE IsPictureOf(k.img, i, k.got[i])
    <3>1. CASE i = Len(j.got) + 1
      BY <1>4, <2>1, <3>1
    <3>2. CASE i # Len(j.got) + 1
      <4>1. i \in DOMAIN j.got /\ k.got[i] = j.got[i]
        BY <2>1, <3>2
      <4> QED
        BY <1>4, <1>5, <4>1 DEF PicturesAre
    <3> QED
      BY <3>1, <3>2
  <2> QED
    BY <2>1, <2>2 DEF PicturesAre
<1>7. Len(k.got) <= FramesOf(k.img)
  <2>1. FramesOf(j.img) \in Nat
    BY <1>2 DEF JobIs, FramesOf, HasPicture, Images
  <2> QED
    BY <1>4, <1>6, <2>1
<1>8. readJob'[r] = k => JobIs(r)'
  <2> SUFFICES ASSUME readJob'[r] = k PROVE JobIs(r)'
    OBVIOUS
  <2>1. /\ j.map \in LoopMaps /\ j.id \in LoopIds /\ j.n \in 1..handIns /\ HasPicture(j.img)
        /\ loops[j.map][j.id].n = j.n => loops[j.map][j.id].img = j.img
    BY <1>2 DEF JobIs
  <2> HIDE DEF j
  <2> QED
    BY <1>4, <1>6, <1>7, <2>1 DEF JobIs
<1> QED
  BY <1>1, <1>8, ReaderSteps

\* The file a job is at is that of the next frame.
LEMMA NextPicture ==
    ASSUME NEW j, NEW seen, Truly(SharedKey(j), seen)
    PROVE  IsPictureOf(j.img, Len(j.got) + 1, Picture(j, seen))
<1> DEFINE i == Len(j.got) + 1
           p == Picture(j, seen)
<1>1. NextFile(j) = FileOf(j.img, i)
  BY DEF NextFile, FileOf
<1>2. seen = ReadingOf(HowOf(j.img, j.img.kind), FileOf(j.img, i))
  BY <1>1, KeyTells DEF SharedKey
<1>3. p.ready /\ p.reading = seen
  BY DEF Picture
<1>4. p.key # NoKey => p.key[1] = SharedKey(j)
  BY <1>1 DEF Picture, FrameKey, SharedKey, FileOf
<1> HIDE DEF p
<1>5. p.key # NoKey => Truly(p.key[1], p.reading)
  BY <1>3, <1>4
<1> HIDE DEF i
<1>6. IsPictureOf(j.img, i, p)
  BY <1>2, <1>3, <1>5, SMTT(30) DEF IsPictureOf
<1> QED
  BY <1>6 DEF i, p

LEMMA LookLoops ==
    ASSUME LoopInv, NEW r \in Readers, LookForFrame(r)
    PROVE  LoopInv'
<1> DEFINE j == readJob[r]
           next == Len(j.got) + 1
           spare == {p \in spares[j.map][j.id] : p.key = FrameKey(j.img, j.img.frames[next])}
           shared == {e \in Range(readings) : e.key = SharedKey(j)}
<1>1. /\ UNCHANGED <<handIns, loops, landedPics, spares, stands>> /\ readings' = readings
      /\ Busy(r) /\ j.stage = "frame" /\ Len(j.got) < FramesOf(j.img)
  BY DEF LookForFrame, Job, Total, FramesOf
<1>2. \/ IsLoop(j.img) /\ j.img.frames[next].gap /\ Got(r, GapPicture)
      \/ IsLoop(j.img) /\ spare # {} /\ Got(r, CHOOSE p \in spare : TRUE)
      \/ shared # {} /\ Got(r, Picture(j, (CHOOSE e \in shared : TRUE).reading))
      \/ readJob' = [readJob EXCEPT ![r].stage = "decode"]
  BY DEF LookForFrame, Job
<1>3. JobIs(r) /\ ReadingsAre
  BY DEF LoopInv
<1>4. ReadingsAre'
  BY <1>1, <1>3 DEF ReadingsAre
<1>5. CASE IsLoop(j.img) /\ j.img.frames[next].gap /\ Got(r, GapPicture)
  <2>1. IsPictureOf(j.img, next, GapPicture)
    BY <1>5 DEF IsPictureOf, GapPicture
  <2> QED
    BY <1>1, <1>4, <1>5, <2>1, GotMore
<1>6. CASE IsLoop(j.img) /\ spare # {} /\ Got(r, CHOOSE p \in spare : TRUE)
  <2>1. PICK p \in spare : Got(r, p)
    BY <1>6
  <2>2. p.ready /\ Truly(p.key[1], p.reading)
    BY <1>1, <1>3, <2>1 DEF JobIs, LoopInv, LoopIs
  <2>3. p.key[1] = KeyOf(j.img, FileOf(j.img, next), j.img.kind)
    <3> DEFINE f == j.img.frames[next]
    <3>1. p.key = FrameKey(j.img, f) /\ f.file = FileOf(j.img, next)
      BY <1>6, <2>1 DEF FileOf
    <3> HIDE DEF f
    <3>2. FrameKey(j.img, f)[1] = KeyOf(j.img, f.file, j.img.kind)
      <4> DEFINE one == KeyOf(j.img, f.file, j.img.kind)
      <4>1. FrameKey(j.img, f) = <<one, f.valid>>
        BY DEF FrameKey
      <4> HIDE DEF one
      <4>2. FrameKey(j.img, f)[1] = one
        BY <4>1
      <4> QED
        BY <4>2 DEF one
    <3> QED
      BY <3>1, <3>2
  <2>4. p.reading = ReadingOf(HowOf(j.img, j.img.kind), FileOf(j.img, next))
    BY <2>2, <2>3, KeyTells
  <2>5. IsPictureOf(j.img, next, p)
    BY <2>2, <2>4 DEF IsPictureOf
  <2> QED
    BY <1>1, <1>4, <2>1, <2>5, GotMore
<1>7. CASE shared # {} /\ Got(r, Picture(j, (CHOOSE e \in shared : TRUE).reading))
  <2>1. PICK e \in shared : Got(r, Picture(j, e.reading))
    BY <1>7
  <2>2. Truly(SharedKey(j), e.reading)
    BY <1>3, <2>1 DEF ReadingsAre, Range
  <2>3. IsPictureOf(j.img, next, Picture(j, e.reading))
    BY <2>2, NextPicture
  <2> QED
    BY <1>1, <1>4, <2>1, <2>3, GotMore
<1>8. CASE readJob' = [readJob EXCEPT ![r].stage = "decode"]
  <2> DEFINE k == [stage |-> "decode", map |-> j.map, id |-> j.id, n |-> j.n,
                   img |-> j.img, got |-> j.got]
  <2>1. j = [stage |-> j.stage, map |-> j.map, id |-> j.id, n |-> j.n,
             img |-> j.img, got |-> j.got]
    BY <1>1, <1>3 DEF JobIs
  <2>2. [j EXCEPT !.stage = "decode"] = k
    BY <2>1
  <2>3. readJob' = [readJob EXCEPT ![r] = k]
    BY <1>8, <2>2
  <2>4. /\ k = [stage |-> k.stage, map |-> k.map, id |-> k.id, n |-> k.n,
                img |-> k.img, got |-> k.got]
        /\ k.map = j.map /\ k.id = j.id /\ k.n = j.n /\ k.img = j.img /\ k.got = j.got
    OBVIOUS
  <2> HIDE DEF k
  <2>5. readJob'[r] = k => JobIs(r)'
    <3> SUFFICES ASSUME readJob'[r] = k PROVE JobIs(r)'
      OBVIOUS
    <3>1. /\ j.map \in LoopMaps /\ j.id \in LoopIds /\ j.n \in 1..handIns /\ HasPicture(j.img)
          /\ loops[j.map][j.id].n = j.n => loops[j.map][j.id].img = j.img
          /\ PicturesAre(j.img, j.got) /\ Len(j.got) <= FramesOf(j.img)
      BY <1>1, <1>3 DEF JobIs
    <3> HIDE DEF j
    <3>2. Len(j.got) < FramesOf(j.img)
      BY <1>1
    <3> QED
      BY <1>1, <2>4, <3>1, <3>2 DEF JobIs
  <2> QED
    BY <1>1, <1>4, <2>3, <2>5, ReaderSteps
<1> QED
  BY <1>2, <1>5, <1>6, <1>7, <1>8

-----------------------------------------------------------------------------
(* What Keep leaves of the readings shared.                                *)

LEMMA LastOnes ==
    ASSUME NEW s, IsSeq(s), NEW d \in 0..Len(s)
    PROVE  LET t == SubSeq(s, d + 1, Len(s))
           IN  /\ IsSeq(t) /\ Len(t) = Len(s) - d /\ DOMAIN t = 1..(Len(s) - d)
               /\ \A i \in 1..(Len(s) - d) : t[i] = s[i + d]
<1>1. PICK S : s \in Seq(S)
  BY DEF IsSeq
<1>2. Len(s) \in Nat /\ d \in Nat /\ d <= Len(s)
  BY <1>1
<1> DEFINE t == SubSeq(s, d + 1, Len(s))
<1>3. t \in Seq(S)
  BY <1>1, <1>2
<1>4. Len(t) = Len(s) - d
  <2>1. CASE d + 1 <= Len(s)
    BY <1>1, <1>2, <2>1
  <2>2. CASE d = Len(s)
    BY <1>1, <1>2, <2>2
  <2> QED
    BY <1>2, <2>1, <2>2
<1>5. \A i \in 1..(Len(s) - d) : t[i] = s[i + d]
  BY <1>1, <1>2
<1> HIDE DEF t
<1>6. IsSeq(t) /\ DOMAIN t = 1..(Len(s) - d)
  BY <1>3, <1>4 DEF IsSeq
<1> QED
  BY <1>4, <1>5, <1>6 DEF t

\* How many of the oldest readings go, for one of so many pixels.
GoneFor(shared, held, size) ==
    Min({n \in 0..Len(shared) : n = Len(shared) \/ held - PixelsOf(shared, 1..n) + size <= SharedCap})

LEMMA GoneAre ==
    ASSUME NEW shared, IsSeq(shared), NEW held, NEW size
    PROVE  LET gone == GoneFor(shared, held, size)
           IN  /\ gone \in 0..Len(shared)
               /\ gone = Len(shared) \/ held - PixelsOf(shared, 1..gone) + size <= SharedCap
<1> DEFINE fits(n) == n = Len(shared) \/ held - PixelsOf(shared, 1..n) + size <= SharedCap
           S == {n \in 0..Len(shared) : fits(n)}
<1>1. Len(shared) \in Nat
  BY SeqGrows
<1>2. Len(shared) \in S
  BY <1>1
<1>3. S \subseteq Nat
  OBVIOUS
<1>4. GoneFor(shared, held, size) = Min(S)
  BY DEF GoneFor
<1> HIDE DEF S
<1>5. Min(S) \in S
  BY <1>2, <1>3, LeastOf
<1>6. Min(S) \in 0..Len(shared) /\ fits(Min(S))
  BY <1>5 DEF S
<1> QED
  BY <1>4, <1>6

\* What is left once so many have gone, and the new one.
LeftOf(shared, gone) == SubSeq(shared, gone + 1, Len(shared))
EntryOf(key, seen) == [key |-> key, reading |-> seen]
LeftHeld(shared, held, size) == held - PixelsOf(shared, 1..GoneFor(shared, held, size)) + size

LEMMA KeepIs ==
    ASSUME NEW shared, NEW held, NEW key, NEW seen
    PROVE  \/ /\ Keep(shared, held, key, seen).readings = shared
              /\ Keep(shared, held, key, seen).held = held
           \/ /\ SizeOf(seen) # 0 /\ ~(SizeOf(seen) > SharedCap)
              /\ \A e \in Range(shared) : e.key # key
              /\ Keep(shared, held, key, seen).readings =
                    Append(LeftOf(shared, GoneFor(shared, held, SizeOf(seen))), EntryOf(key, seen))
              /\ Keep(shared, held, key, seen).held =
                    LeftHeld(shared, held, SizeOf(seen))
<1> DEFINE size == SizeOf(seen)
           gone == GoneFor(shared, held, size)
           result == Keep(shared, held, key, seen)
           more == Append(SubSeq(shared, gone + 1, Len(shared)), [key |-> key, reading |-> seen])
           full == size = 0 \/ size > SharedCap \/ \E e \in Range(shared) : e.key = key
           sum  == held - PixelsOf(shared, 1..gone) + size
<1>1. result = IF full THEN [readings |-> shared, held |-> held]
             ELSE [readings |-> more, held |-> sum]
  BY DEF Keep, GoneFor
<1>2. ~full => size # 0 /\ ~(size > SharedCap) /\ \A e \in Range(shared) : e.key # key
  OBVIOUS
<1> HIDE DEF full, more, sum, result
<1>3. \/ result.readings = shared /\ result.held = held
      \/ ~full /\ result.readings = more /\ result.held = sum
  BY <1>1
<1> HIDE DEF size, gone
<1>4. \/ result.readings = shared /\ result.held = held
      \/ /\ size # 0 /\ ~(size > SharedCap) /\ \A e \in Range(shared) : e.key # key
         /\ result.readings = more /\ result.held = sum
  BY <1>2, <1>3
<1> QED
  BY <1>4 DEF result, size, gone, more, sum, LeftOf, EntryOf, LeftHeld

\* What is kept was kept already, or is the one reading new.
LEMMA KeepsOnly ==
    ASSUME NEW shared, IsSeq(shared), NEW held, NEW key, NEW seen
    PROVE  LET result == Keep(shared, held, key, seen).readings
           IN  /\ IsSeq(result)
               /\ \A i \in DOMAIN result :
                     \/ \E k \in DOMAIN shared : result[i] = shared[k]
                     \/ result[i] = [key |-> key, reading |-> seen]
<1> DEFINE result == Keep(shared, held, key, seen).readings
           gone == GoneFor(shared, held, SizeOf(seen))
           new  == EntryOf(key, seen)
           rest == LeftOf(shared, gone)
<1>1. gone \in 0..Len(shared) /\ Len(shared) \in Nat /\ DOMAIN shared = 1..Len(shared)
  BY GoneAre, SeqGrows
<1>2. result = shared \/ result = Append(rest, new)
  BY KeepIs, SMTT(30)
<1> HIDE DEF result, gone, new
<1>3. /\ IsSeq(rest) /\ Len(rest) = Len(shared) - gone
      /\ \A i \in 1..(Len(shared) - gone) : rest[i] = shared[i + gone]
  BY <1>1, LastOnes DEF LeftOf
<1> HIDE DEF rest
<1> DEFINE only(s) == IsSeq(s) /\ \A i \in DOMAIN s : (\E k \in DOMAIN shared : s[i] = shared[k]) \/ s[i] = new
<1>4. only(shared)
  OBVIOUS
<1>5. only(Append(rest, new))
  <2> DEFINE more == Append(rest, new)
  <2>1. /\ IsSeq(more) /\ DOMAIN more = 1..(Len(rest) + 1)
        /\ \A i \in 1..Len(rest) : more[i] = rest[i]
        /\ more[Len(rest) + 1] = new
    BY <1>3, SeqGrows
  <2> HIDE DEF more
  <2>2. ASSUME NEW i \in DOMAIN more, more[i] # new
        PROVE  \E k \in DOMAIN shared : more[i] = shared[k]
    <3>1. i \in 1..(Len(shared) - gone) /\ more[i] = shared[i + gone]
      BY <1>1, <1>3, <2>1, <2>2
    <3>2. i + gone \in DOMAIN shared
      BY <1>1, <3>1
    <3> QED
      BY <3>1, <3>2
  <2>3. only(more)
    BY <2>1, <2>2
  <2> QED
    BY <2>3 DEF more
<1> HIDE DEF only
<1>6. only(result)
  BY <1>2, <1>4, <1>5
<1> QED
  BY <1>6 DEF only, result, new, EntryOf

\* A frame decoded is read as its key says, and kept so.
LEMMA DecodeLoops ==
    ASSUME LoopInv, NEW r \in Readers, DecodeFrame(r)
    PROVE  LoopInv'
<1> DEFINE j == readJob[r]
           seen == ReadingOf(HowOf(j.img, j.img.kind), NextFile(j))
           result == Keep(readings, sharedHeld, SharedKey(j), seen)
<1>1. /\ UNCHANGED <<handIns, loops, landedPics, spares, stands>>
      /\ Busy(r) /\ j.stage = "decode" /\ readings' = result.readings
      /\ Got(r, Picture(j, seen))
  BY DEF DecodeFrame, Job
<1>2. JobIs(r) /\ ReadingsAre
  BY DEF LoopInv
<1>3. Len(j.got) < FramesOf(j.img)
  BY <1>1, <1>2 DEF JobIs
<1>4. Truly(SharedKey(j), seen)
  BY KeyTells DEF SharedKey
<1>5. IsPictureOf(j.img, Len(j.got) + 1, Picture(j, seen))
  BY <1>4, NextPicture
<1>6. ReadingsAre'
  <2>1. /\ IsSeq(readings')
        /\ \A i \in DOMAIN readings' :
              \/ \E k \in DOMAIN readings : readings'[i] = readings[k]
              \/ readings'[i] = [key |-> SharedKey(j), reading |-> seen]
    BY <1>1, <1>2, KeepsOnly DEF ReadingsAre
  <2> HIDE DEF seen, j
  <2>2. \A i \in DOMAIN readings' : Truly(readings'[i].key, readings'[i].reading)
    BY <1>2, <1>4, <2>1 DEF ReadingsAre
  <2> QED
    BY <2>1, <2>2 DEF ReadingsAre
<1> HIDE DEF seen
<1> QED
  BY <1>1, <1>3, <1>5, <1>6, GotMore

\* What lands is all of the version it was read for.
LEMMA LandLoops ==
    ASSUME LoopInv, NEW r \in Readers, LandLoop(r)
    PROVE  LoopInv'
<1> DEFINE j == readJob[r]
           m == j.map
           id == j.id
<1>1. /\ UNCHANGED <<handIns, loops, readings>>
      /\ Busy(r) /\ Len(j.got) = FramesOf(j.img)
      /\ readJob' = [readJob EXCEPT ![r] = NoneRead]
      /\ \/ loops[m][id].n # j.n /\ UNCHANGED <<landedPics, stands, spares>>
         \/ /\ loops[m][id].n = j.n
            /\ landedPics' = PutIn(landedPics, m, id, j.got)
            /\ stands' = PutIn(stands, m, id, NoStand)
            /\ spares' = PutIn(spares, m, id, {})
  BY DEF LandLoop, Job, Total, FramesOf, PutIn
<1>2. JobIs(r) /\ ReadingsAre /\ LoopTables
  BY DEF LoopInv
<1>3. ReadingsAre'
  BY <1>1, <1>2 DEF ReadingsAre
<1>4. readJob'[r] = NoneRead => JobIs(r)'
  BY DEF JobIs, Busy
<1>5. CASE loops[m][id].n # j.n /\ UNCHANGED <<landedPics, stands, spares>>
  BY <1>1, <1>3, <1>4, <1>5, ReaderSteps
<1>6. CASE /\ loops[m][id].n = j.n
           /\ landedPics' = PutIn(landedPics, m, id, j.got)
           /\ stands' = PutIn(stands, m, id, NoStand)
           /\ spares' = PutIn(spares, m, id, {})
  <2>1. /\ m \in LoopMaps /\ id \in LoopIds /\ j.n \in 1..handIns
        /\ loops[m][id].img = j.img /\ AllOf(j.img, j.got)
    BY <1>1, <1>2, <1>6 DEF JobIs, AllOf
  <2>2. LoopIs(m, id) /\ handIns \in Nat
    BY <2>1 DEF LoopInv, LoopTables
  <2>3. loops[m][id] # NoLoop
    BY <1>6, <2>1, <2>2 DEF NoLoop
  <2> DEFINE pics == j.got
  <2> HIDE DEF m, id, pics
  <2>4. /\ IsTable(landedPics') /\ landedPics'[m][id] = pics
        /\ \A k \in LoopMaps, i \in LoopIds : ~(k = m /\ i = id) => landedPics'[k][i] = landedPics[k][i]
    BY <1>2, <1>6, <2>1, TableSet DEF LoopTables, pics
  <2>5. /\ IsTable(spares') /\ spares'[m][id] = {}
        /\ \A k \in LoopMaps, i \in LoopIds : ~(k = m /\ i = id) => spares'[k][i] = spares[k][i]
    BY <1>2, <1>6, <2>1, TableSet DEF LoopTables
  <2>6. /\ IsTable(stands') /\ stands'[m][id] = NoStand
        /\ \A k \in LoopMaps, i \in LoopIds : ~(k = m /\ i = id) => stands'[k][i] = stands[k][i]
    BY <1>2, <1>6, <2>1, TableSet DEF LoopTables
  <2>7. /\ readJob' = [x \in Readers |-> readJob'[x]]
        /\ readJob'[r] = NoneRead /\ \A x \in Readers \ {r} : readJob'[x] = readJob[x]
    BY <1>1, <1>2 DEF LoopTables
  <2>8. LoopTables'
    BY <1>1, <1>2, <2>4, <2>5, <2>6, <2>7 DEF LoopTables
  <2>9. AllOf(loops'[m][id].img, pics)
    BY <1>1, <2>1 DEF pics
  <2>10. ASSUME NEW k \in LoopMaps, NEW i \in LoopIds PROVE LoopIs(k, i)'
    <3>1. CASE k = m /\ i = id
      <4>1. /\ loops'[m][id] # NoLoop /\ loops'[m][id].n \in 1..handIns'
            /\ HasPicture(loops'[m][id].img)
        BY <1>1, <2>2, <2>3 DEF LoopIs
      <4> QED
        BY <2>4, <2>5, <2>6, <2>9, <3>1, <4>1 DEF LoopIs
    <3>2. CASE ~(k = m /\ i = id)
      BY <1>1, <2>2, <2>4, <2>5, <2>6, <3>2, LoopStays
    <3> QED
      BY <3>1, <3>2
  <2>11. \A x \in Readers : JobIs(x)'
    BY <1>1, <1>4, <2>2, <2>7, JobStays
  <2> QED
    BY <1>3, <2>8, <2>10, <2>11 DEF LoopInv
<1> QED
  BY <1>1, <1>5, <1>6

\* Every picture kept or being read is its frame's, with what its key names; a
\* version's pictures land all at once; a job's number is one version's alone
\* (HandIn, spareFramesLocked, standPicturesLocked, keepPictures).
THEOREM LoopInvariant == LoopSpec => []LoopInv
<1>1. LoopInit => LoopInv
  BY InitLoops
<1>2. LoopInv /\ [LoopNext]_loopVars => LoopInv'
  <2> SUFFICES ASSUME LoopInv, [LoopNext]_loopVars PROVE LoopInv'
    OBVIOUS
  <2>1. \/ TickWall \/ UNCHANGED loopVars
        \/ \E m \in LoopMaps :
              \/ TakeLoopWarnings(m) \/ DropSpareFrames(m)
              \/ \E bytes \in Budgets : SetBudget(m, bytes)
              \/ \E id \in LoopIds :
                    \/ DropLoop(m, id)
                    \/ \E img \in LoopOffers : HandInLoop(m, id, img) \/ RefuseLoop(m, id, img)
                    \/ \E r \in Readers : ReadLoop(r, m, id)
        \/ \E r \in Readers : LookForFrame(r) \/ DecodeFrame(r) \/ ReadLoopFails(r) \/ LandLoop(r)
    BY DEF LoopNext
  <2>2. CASE \/ TickWall \/ UNCHANGED loopVars
             \/ \E m \in LoopMaps :
                   \/ TakeLoopWarnings(m) \/ DropSpareFrames(m)
                   \/ \E bytes \in Budgets : SetBudget(m, bytes)
                   \/ \E id \in LoopIds, img \in LoopOffers : RefuseLoop(m, id, img)
    BY <2>2, HostLoops
  <2>3. ASSUME NEW m \in LoopMaps, NEW id \in LoopIds, DropLoop(m, id) PROVE LoopInv'
    BY <2>3, DropLoops
  <2>4. ASSUME NEW m \in LoopMaps, NEW id \in LoopIds, NEW img \in LoopOffers, HandInLoop(m, id, img)
        PROVE  LoopInv'
    BY <2>4, HandInLoops
  <2>5. ASSUME NEW m \in LoopMaps, NEW id \in LoopIds, NEW r \in Readers, ReadLoop(r, m, id)
        PROVE  LoopInv'
    BY <2>5, ReadLoops
  <2>6. ASSUME NEW r \in Readers,
               LookForFrame(r) \/ DecodeFrame(r) \/ ReadLoopFails(r) \/ LandLoop(r)
        PROVE  LoopInv'
    BY <2>6, LookLoops, DecodeLoops, FailLoops, LandLoops
  <2> QED
    BY <2>1, <2>2, <2>3, <2>4, <2>5, <2>6
<1> QED
  BY <1>1, <1>2, PTL DEF LoopSpec

-----------------------------------------------------------------------------
(* What a moment shows.                                                    *)

\* The frames among those given that have a picture.
PicturedIn(img, among) ==
    {i \in DOMAIN img.frames : ~img.frames[i].gap /\ img.frames[i] \in among}

LEMMA NewestIs ==
    ASSUME NEW img \in Images, NEW among
    PROVE  IF PicturedIn(img, among) = {} THEN Newest(img, among) = 0
           ELSE Newest(img, among) \in PicturedIn(img, among)
<1> DEFINE S == PicturedIn(img, among)
<1>1. Len(img.frames) \in Nat /\ DOMAIN img.frames = 1..Len(img.frames)
  BY DEF Images
<1>2. S \subseteq 0..Len(img.frames)
  BY <1>1 DEF PicturedIn
<1>3. Newest(img, among) = IF S = {} THEN 0 ELSE Max(S)
  BY DEF Newest, PicturedIn, Pictured
<1> HIDE DEF S
<1>4. S # {} => Max(S) \in S
  BY <1>1, <1>2, GreatestOf
<1> QED
  BY <1>3, <1>4 DEF S

\* A moment shows a picture there is, and none of a later time while there is
\* one of its own or an earlier.
LEMMA ShownAtIs ==
    ASSUME NEW img, HasPicture(img), NEW when \in Nat, when # 0
    PROVE  LET i == FrameShownAt(img, when)
           IN  /\ i \in 1..FramesOf(img)
               /\ IsLoop(img) => i \in DOMAIN img.frames /\ ~img.frames[i].gap
               /\ IsLoop(img) /\ img.frames[i].valid > when =>
                     \A k \in DOMAIN img.frames : img.frames[k].gap \/ img.frames[k].valid > when
<1> DEFINE among == {f \in Range(img.frames) : f.valid <= when}
           early == Newest(img, among)
           any   == {i \in DOMAIN img.frames : ~img.frames[i].gap}
           i == FrameShownAt(img, when)
<1>1. img \in Images
  BY DEF HasPicture
<1>2. CASE ~IsLoop(img)
  <2>1. i = 1 /\ FramesOf(img) = 1
    BY <1>2 DEF FrameShownAt, Shown, FramesOf
  <2> QED
    BY <1>2, <2>1
<1>3. CASE IsLoop(img)
  <2>1. i = IF early # 0 THEN early ELSE Min(any)
    BY <1>3 DEF FrameShownAt, Pictured
  <2>2. /\ Len(img.frames) \in Nat /\ DOMAIN img.frames = 1..Len(img.frames)
        /\ \A k \in DOMAIN img.frames : img.frames[k].valid \in Nat
    <3>1. img.frames \in Seq(LoopFrames)
      BY <1>1 DEF Images
    <3>2. \A k \in DOMAIN img.frames : img.frames[k] \in LoopFrames
      BY <3>1
    <3> QED
      BY <3>1, <3>2 DEF LoopFrames
  <2>3. any # {} /\ any \subseteq Nat
    BY <1>3, <2>2 DEF HasPicture
  <2> HIDE DEF any
  <2>4. Min(any) \in any
    BY <2>3, LeastOf
  <2>5. \A k \in DOMAIN img.frames :
           ~img.frames[k].gap /\ img.frames[k].valid <= when => k \in PicturedIn(img, among)
    BY DEF PicturedIn, Range
  <2>6. \A k \in PicturedIn(img, among) :
           k \in DOMAIN img.frames /\ ~img.frames[k].gap /\ img.frames[k].valid <= when
    BY DEF PicturedIn
  <2> HIDE DEF among
  <2>7. IF PicturedIn(img, among) = {} THEN early = 0 ELSE early \in PicturedIn(img, among)
    BY <1>1, NewestIs
  <2> HIDE DEF early, i
  <2>8. i \in DOMAIN img.frames /\ ~img.frames[i].gap
    <3>1. CASE early # 0
      BY <2>1, <2>6, <2>7, <3>1
    <3>2. CASE early = 0
      BY <2>1, <2>4, <3>2 DEF any
    <3> QED
      BY <3>1, <3>2
  <2>9. ASSUME img.frames[i].valid > when, NEW k \in DOMAIN img.frames
        PROVE  img.frames[k].gap \/ img.frames[k].valid > when
    <3> SUFFICES ASSUME ~img.frames[k].gap, ~(img.frames[k].valid > when) PROVE FALSE
      OBVIOUS
    <3>1. k \in PicturedIn(img, among)
      BY <2>2, <2>5
    <3>2. early \in PicturedIn(img, among)
      BY <2>7, <3>1
    <3>3. i = early
      BY <2>1, <2>2, <2>6, <3>2
    <3>4. img.frames[i].valid <= when /\ img.frames[i].valid \in Nat
      BY <2>2, <2>6, <2>8, <3>2, <3>3
    <3> QED
      BY <2>9, <3>4
  <2>10. FramesOf(img) = Len(img.frames)
    BY <1>3 DEF FramesOf
  <2> QED
    BY <2>2, <2>8, <2>9, <2>10 DEF i
<1> QED
  BY <1>2, <1>3

\* With all its pictures, what a moment shows of an image is ready.
LEMMA ShownAtIsReady ==
    ASSUME NEW img, HasPicture(img), NEW when \in Nat, when # 0, NEW pics, AllOf(img, pics)
    PROVE  Ready(pics, FrameShownAt(img, when)) /\ FrameShownAt(img, when) # 0
<1> DEFINE i == FrameShownAt(img, when)
<1>1. i \in 1..FramesOf(img) /\ (IsLoop(img) => ~img.frames[i].gap)
  BY ShownAtIs
<1> HIDE DEF i
<1>2. IsSeq(pics) /\ Len(pics) = FramesOf(img) /\ \A k \in DOMAIN pics : IsPictureOf(img, k, pics[k])
  BY DEF AllOf, PicturesAre
<1>3. i \in DOMAIN pics
  BY <1>1, <1>2, SeqGrows
<1>4. pics[i].ready
  BY <1>1, <1>2, <1>3 DEF IsPictureOf
<1>5. FramesOf(img) \in Nat
  BY DEF FramesOf, HasPicture, Images
<1>6. i # 0
  BY <1>1, <1>5
<1> QED
  BY <1>3, <1>4, <1>6 DEF Ready, i

LEMMA InvHoldsMoment == LoopInv => LoopsHoldTheMoment
<1> SUFFICES ASSUME LoopInv, NEW m \in LoopMaps, NEW id \in LoopIds, NEW when \in Moments
             PROVE  LET drawn == RasterAt(m, id, when)
                    IN  /\ landedPics[m][id] # <<>> \/ stands[m][id] # NoStand => drawn # NothingDrawn
                        /\ drawn # NothingDrawn /\ IsLoop(drawn.from) /\ drawn.from.frames[drawn.at].valid > when =>
                              \A i \in DOMAIN drawn.from.frames :
                                  drawn.from.frames[i].gap \/ drawn.from.frames[i].valid > when
  BY DEF LoopsHoldTheMoment
<1> DEFINE own == loops[m][id]
           old == stands[m][id]
           pics == landedPics[m][id]
           drawn == RasterAt(m, id, when)
           ofOwn == [from |-> own.img, at |-> FrameShownAt(own.img, when)]
           ofOld == [from |-> old.img, at |-> FrameShownAt(old.img, when)]
<1>1. when \in Nat /\ when # 0
  BY LoopAssumption DEF LoopAssumption
<1>2. LoopIs(m, id)
  BY DEF LoopInv
<1>3. own = NoLoop => pics = <<>> /\ old = NoStand
  BY <1>2 DEF LoopIs
<1>4. own # NoLoop => HasPicture(own.img)
  BY <1>2 DEF LoopIs
<1>5. pics # <<>> => AllOf(own.img, pics)
  BY <1>2 DEF LoopIs
<1>6. old # NoStand => HasPicture(old.img) /\ AllOf(old.img, old.pics)
  BY <1>2 DEF LoopIs
<1>7. drawn = IF own = NoLoop THEN NothingDrawn
            ELSE IF Ready(pics, FrameShownAt(own.img, when)) THEN ofOwn
            ELSE IF old # NoStand /\ Ready(old.pics, FrameShownAt(old.img, when)) THEN ofOld
            ELSE NothingDrawn
  BY DEF RasterAt
<1>8. /\ ofOwn.from = own.img /\ ofOwn.at = FrameShownAt(own.img, when)
      /\ ofOld.from = old.img /\ ofOld.at = FrameShownAt(old.img, when)
      /\ NothingDrawn.at = 0
  BY DEF NothingDrawn
<1> HIDE DEF own, old, pics, drawn, ofOwn, ofOld
<1>9. pics # <<>> \/ old # NoStand => drawn # NothingDrawn
  <2>1. CASE pics # <<>>
    <3>1. Ready(pics, FrameShownAt(own.img, when)) /\ FrameShownAt(own.img, when) # 0
      BY <1>1, <1>3, <1>4, <1>5, <2>1, ShownAtIsReady
    <3> QED
      BY <1>3, <1>7, <1>8, <2>1, <3>1
  <2>2. CASE pics = <<>> /\ old # NoStand
    <3>1. Ready(old.pics, FrameShownAt(old.img, when)) /\ FrameShownAt(old.img, when) # 0
      BY <1>1, <1>6, <2>2, ShownAtIsReady
    <3>2. ~Ready(pics, FrameShownAt(own.img, when))
      <4>1. DOMAIN <<>> = {}
        OBVIOUS
      <4> QED
        BY <2>2, <4>1 DEF Ready
    <3> QED
      BY <1>3, <1>7, <1>8, <2>2, <3>1, <3>2
  <2> QED
    BY <2>1, <2>2
<1>10. ASSUME drawn # NothingDrawn, IsLoop(drawn.from), drawn.from.frames[drawn.at].valid > when
       PROVE  \A i \in DOMAIN drawn.from.frames :
                 drawn.from.frames[i].gap \/ drawn.from.frames[i].valid > when
  <2>1. HasPicture(drawn.from) /\ drawn.at = FrameShownAt(drawn.from, when)
    BY <1>4, <1>6, <1>7, <1>8, <1>10
  <2> QED
    BY <1>1, <1>10, <2>1, ShownAtIs
<1> QED
  BY <1>9, <1>10 DEF drawn, pics, old

LEMMA InvIsTheirReading == LoopInv => PicturesAreTheirReading
<1> SUFFICES ASSUME LoopInv, NEW m \in LoopMaps, NEW id \in LoopIds,
                    NEW i \in DOMAIN landedPics[m][id], landedPics[m][id][i].ready
             PROVE  LET img == loops[m][id].img
                    IN  landedPics[m][id][i].reading = ReadingOf(HowOf(img, img.kind),
                           IF IsLoop(img) THEN img.frames[i].file ELSE img.file)
  BY DEF PicturesAreTheirReading
<1>1. landedPics[m][id] # <<>>
  <2>1. DOMAIN <<>> = {}
    OBVIOUS
  <2> QED
    BY <2>1
<1>2. PicturesAre(loops[m][id].img, landedPics[m][id])
  BY <1>1 DEF LoopInv, LoopIs, AllOf
<1> QED
  BY <1>2 DEF PicturesAre, IsPictureOf, FileOf

-----------------------------------------------------------------------------
(* The count of the readings shared.                                       *)

PixelsAt(shared) == [i \in DOMAIN shared |-> SizeOf(shared[i].reading)]

LEMMA PixelsAreASum ==
    ASSUME NEW shared, NEW S, IsFiniteSet(S), S \subseteq DOMAIN shared
    PROVE  PixelsOf(shared, S) = SumOf(PixelsAt(shared), S)
<1> DEFINE W == PixelsAt(shared)
           w(i) == SizeOf(shared[i].reading)
           A(g) == [s \in SUBSET S |->
                      IF s = {} THEN 0
                      ELSE w(CHOOSE x \in s : TRUE) + g[s \ {CHOOSE x \in s : TRUE}]]
           B(g) == [s \in SUBSET S |->
                      IF s = {} THEN 0
                      ELSE W[CHOOSE x \in s : TRUE] + g[s \ {CHOOSE x \in s : TRUE}]]
           Ups(g) == g = A(g)
<1>1. PixelsOf(shared, S) = (CHOOSE g : Ups(g))[S]
  BY DEF PixelsOf, MapThenSumSet, MapThenFoldSet
<1>2. ASSUME NEW s \in SUBSET S, s # {}
      PROVE  W[CHOOSE x \in s : TRUE] = w(CHOOSE x \in s : TRUE)
  <2>1. (CHOOSE x \in s : TRUE) \in s
    BY <1>2
  <2> QED
    BY <2>1 DEF PixelsAt
<1> HIDE DEF W, w
<1>3. ASSUME NEW g PROVE A(g) = B(g)
  BY <1>2
<1>4. \A g : Ups(g) <=> SumsUp(g, W, S)
  <2> SUFFICES ASSUME NEW g PROVE Ups(g) <=> SumsUp(g, W, S)
    OBVIOUS
  <2>1. SumsUp(g, W, S) <=> g = B(g)
    BY Zenon DEF SumsUp
  <2> HIDE DEF A, B
  <2> QED
    BY <1>3, <2>1
<1> HIDE DEF Ups
<1>5. \E g : Ups(g)
  BY <1>4, SumsExist
<1>6. Ups(CHOOSE g : Ups(g))
  BY <1>5, Zenon
<1>7. SumsUp(CHOOSE g : Ups(g), W, S)
  BY <1>4, <1>6
<1>8. SumsUp(CHOOSE g : SumsUp(g, W, S), W, S)
  BY SumOfSumsUp
<1>9. (CHOOSE g : Ups(g))[S] = (CHOOSE g : SumsUp(g, W, S))[S]
  BY <1>7, <1>8, SumsAgree
<1> QED
  BY <1>1, <1>9 DEF SumOf, W

\* A sum over a run of numbers is that over another as long.
SameRun(f, g, d, n) == \A i \in 1..n : f[i] \in Int /\ f[i] = g[i + d]

LEMMA SumShifted ==
    ASSUME NEW d \in Nat, NEW n \in Nat, NEW f, NEW g, SameRun(f, g, d, n)
    PROVE  SumOf(f, 1..n) = SumOf(g, (d + 1)..(d + n))
<1>0. \A i \in 1..n : f[i] \in Int /\ f[i] = g[i + d]
  BY DEF SameRun
<1> DEFINE same(k) == SumOf(f, 1..k) = SumOf(g, (d + 1)..(d + k))
           odd == {k \in 0..n : ~same(k)}
<1> SUFFICES ASSUME odd # {} PROVE FALSE
  OBVIOUS
<1> HIDE DEF same
<1>1. PICK k \in odd : \A i \in odd : k <= i
  <2>1. odd \subseteq Nat
    OBVIOUS
  <2> HIDE DEF odd
  <2> QED
    BY <2>1, LeastOf
<1>2. k \in 0..n /\ ~same(k)
  OBVIOUS
<1>3. CASE k = 0
  <2>1. 1..k = {} /\ (d + 1)..(d + k) = {}
    BY <1>3
  <2> QED
    BY <1>2, <2>1, SumOfNone DEF same
<1>4. CASE k # 0
  <2>1. k - 1 \in 0..n /\ ~(k <= k - 1) /\ k \in 1..n
    BY <1>2, <1>4
  <2>2. same(k - 1)
    BY <1>1, <2>1
  <2> HIDE DEF odd
  <2>3. 1..k = (1..(k - 1)) \cup {k} /\ k \notin 1..(k - 1)
    BY <2>1
  <2>4. /\ (d + 1)..(d + k) = ((d + 1)..(d + (k - 1))) \cup {k + d}
        /\ k + d \notin (d + 1)..(d + (k - 1))
    <3>1. \A i \in Int : i <= d + k <=> (i <= d + (k - 1) \/ i = k + d)
      BY <2>1
    <3>2. k + d \in Int /\ k + d >= d + 1 /\ ~(k + d <= d + (k - 1))
      BY <2>1
    <3> QED
      BY <3>1, <3>2
  <2>5. IsFiniteSet(1..(k - 1)) /\ IsFiniteSet((d + 1)..(d + (k - 1)))
    BY <2>1, FS_Interval
  <2>6. \A i \in (1..(k - 1)) \cup {k} : f[i] \in Int
    BY <1>0, <2>1
  <2>7. \A i \in ((d + 1)..(d + (k - 1))) \cup {k + d} : g[i] \in Int
    <3> SUFFICES ASSUME NEW i \in (d + 1)..(d + k) PROVE g[i] \in Int
      BY <2>4
    <3>1. i - d \in 1..n /\ (i - d) + d = i
      BY <2>1
    <3>2. f[i - d] \in Int /\ f[i - d] = g[(i - d) + d]
      BY <1>0, <3>1
    <3> QED
      BY <3>1, <3>2
  <2>8. SumOf(f, 1..k) = f[k] + SumOf(f, 1..(k - 1))
    BY <2>3, <2>5, <2>6, SumWith
  <2>9. SumOf(g, (d + 1)..(d + k)) = g[k + d] + SumOf(g, (d + 1)..(d + (k - 1)))
    BY <2>4, <2>5, <2>7, SumWith
  <2>10. f[k] = g[k + d]
    BY <1>0, <2>1
  <2> QED
    BY <1>2, <2>2, <2>8, <2>9, <2>10 DEF same
<1> QED
  BY <1>3, <1>4

\* Readings and the count of them.
Counted(shared, held) ==
    /\ IsSeq(shared) /\ \A i \in DOMAIN shared : SizeOf(shared[i].reading) \in Nat
    /\ held <= SharedCap /\ held = PixelsOf(shared, DOMAIN shared)
    /\ \A i, j \in DOMAIN shared : shared[i].key = shared[j].key => i = j

LEMMA KeepCounts ==
    ASSUME NEW shared, NEW held, Counted(shared, held),
           NEW key, NEW seen, SizeOf(seen) \in Nat
    PROVE  Counted(Keep(shared, held, key, seen).readings, Keep(shared, held, key, seen).held)
<1> DEFINE size == SizeOf(seen)
           d    == GoneFor(shared, held, size)
           n    == Len(shared)
           k    == n - d
           rest == LeftOf(shared, d)
           new  == EntryOf(key, seen)
           more == Append(rest, new)
           W    == PixelsAt(shared)
           V    == PixelsAt(more)
           result == Keep(shared, held, key, seen)
<1>1. \/ result.readings = shared /\ result.held = held
      \/ /\ size # 0 /\ ~(size > SharedCap) /\ \A e \in Range(shared) : e.key # key
         /\ result.readings = more /\ result.held = LeftHeld(shared, held, size)
  BY KeepIs
<1>2. /\ IsSeq(shared) /\ held <= SharedCap
      /\ held = PixelsOf(shared, DOMAIN shared)
      /\ \A i \in DOMAIN shared : SizeOf(shared[i].reading) \in Nat
  BY DEF Counted
<1>3. /\ n \in Nat /\ DOMAIN shared = 1..n
      /\ d \in 0..n /\ (d = n \/ held - PixelsOf(shared, 1..d) + size <= SharedCap)
      /\ d \in Nat /\ k \in Nat /\ n = d + k
  <2>1. n \in Nat /\ DOMAIN shared = 1..n
    BY <1>2, SeqGrows
  <2>2. d \in 0..n /\ (d = n \/ held - PixelsOf(shared, 1..d) + size <= SharedCap)
    BY <1>2, GoneAre
  <2> HIDE DEF d, n, size
  <2> QED
    BY <2>1, <2>2
<1>4. new.key = key /\ new.reading = seen
  BY DEF EntryOf
<1>5. size \in Nat /\ SharedCap \in Nat
  BY LoopAssumption, SMTT(30) DEF LoopAssumption
<1> HIDE DEF size, d, n, new, k
<1>6. /\ IsSeq(rest) /\ Len(rest) = k
      /\ \A i \in 1..k : rest[i] = shared[i + d]
  BY <1>2, <1>3, LastOnes DEF LeftOf, n, k
<1> HIDE DEF rest
<1>7. /\ IsSeq(more) /\ DOMAIN more = 1..(k + 1)
      /\ \A i \in 1..k : more[i] = rest[i]
      /\ more[k + 1] = new
  BY <1>6, SeqGrows
<1> HIDE DEF more
<1>8. /\ \A i \in 1..n : W[i] \in Nat /\ W[i] = SizeOf(shared[i].reading)
      /\ \A i \in 1..k : V[i] = W[i + d] /\ V[i] \in Nat
      /\ V[k + 1] = size
  <2>1. \A i \in 1..n : W[i] \in Nat /\ W[i] = SizeOf(shared[i].reading)
    BY <1>2, <1>3 DEF PixelsAt
  <2>2. \A i \in 1..(k + 1) : V[i] = SizeOf(more[i].reading)
    BY <1>7 DEF PixelsAt
  <2> HIDE DEF V, W
  <2>3. ASSUME NEW i \in 1..k PROVE V[i] = W[i + d] /\ V[i] \in Nat
    <3>1. i + d \in 1..n /\ i \in 1..(k + 1)
      BY <1>3
    <3> QED
      BY <1>6, <1>7, <2>1, <2>2, <3>1
  <2>4. V[k + 1] = size
    <3>1. k + 1 \in 1..(k + 1)
      BY <1>3
    <3> QED
      BY <1>4, <1>7, <2>2, <3>1 DEF size
  <2> QED
    BY <2>1, <2>3, <2>4
<1>9. /\ held = SumOf(W, 1..n) /\ PixelsOf(shared, 1..d) = SumOf(W, 1..d)
      /\ PixelsOf(more, DOMAIN more) = SumOf(V, 1..(k + 1))
  <2>1. IsFiniteSet(1..n) /\ IsFiniteSet(1..d) /\ IsFiniteSet(1..(k + 1))
    <3>1. 1 \in Int /\ n \in Int /\ d \in Int /\ k + 1 \in Int
      BY <1>3
    <3> QED
      BY <3>1, FS_Interval
  <2>2. 1..d \subseteq 1..n
    BY <1>3
  <2> QED
    BY <1>2, <1>3, <1>7, <2>1, <2>2, PixelsAreASum
<1> HIDE DEF V, W
<1>10. SumOf(V, 1..(k + 1)) = size + SumOf(V, 1..k)
  <2>1. 1..(k + 1) = (1..k) \cup {k + 1} /\ k + 1 \notin 1..k
    BY <1>3
  <2>2. IsFiniteSet(1..k)
    BY <1>3, FS_Interval
  <2>3. \A i \in (1..k) \cup {k + 1} : V[i] \in Int
    BY <1>5, <1>8
  <2> QED
    BY <1>8, <2>1, <2>2, <2>3, SumWith
<1>11. SumOf(V, 1..k) = SumOf(W, (d + 1)..(d + k))
  <2>1. d \in Nat /\ k \in Nat
    BY <1>3
  <2>2. SameRun(V, W, d, k)
    BY <1>8 DEF SameRun
  <2> QED
    BY <2>1, <2>2, SumShifted
<1>12. SumOf(W, 1..n) = SumOf(W, 1..d) + SumOf(W, (d + 1)..(d + k))
  <2> DEFINE all == 1..n
             old == 1..d
  <2>1. old \in SUBSET all /\ all \ old = (d + 1)..(d + k)
    BY <1>3
  <2>2. IsFiniteSet(all)
    <3>1. 1 \in Int /\ n \in Int
      BY <1>3
    <3> QED
      BY <3>1, FS_Interval
  <2>3. \A i \in all : W[i] \in Int
    BY <1>8
  <2> HIDE DEF all, old
  <2>4. SumOf(W, all) = SumOf(W, old) + SumOf(W, all \ old)
    BY <2>1, <2>2, <2>3, SumSplits
  <2> QED
    BY <2>1, <2>4 DEF all, old
<1>13. /\ SumOf(W, 1..d) \in Int /\ SumOf(V, 1..k) \in Int
  <2>1. IsFiniteSet(1..d) /\ IsFiniteSet(1..k)
    <3>1. 1 \in Int /\ d \in Int /\ k \in Int
      BY <1>3
    <3> QED
      BY <3>1, FS_Interval
  <2>2. \A i \in 1..d : W[i] \in Int
    BY <1>3, <1>8
  <2>3. \A i \in 1..k : V[i] \in Int
    BY <1>8
  <2> QED
    BY <2>1, <2>2, <2>3, SumIsANumber
<1>14. LeftHeld(shared, held, size) = held - SumOf(W, 1..d) + size
  BY <1>9 DEF LeftHeld, d
<1>15. LeftHeld(shared, held, size) = PixelsOf(more, DOMAIN more)
  BY <1>5, <1>9, <1>10, <1>11, <1>12, <1>13, <1>14
<1>16. ~(size > SharedCap) => LeftHeld(shared, held, size) <= SharedCap
  <2>1. CASE d = n
    <3>1. (d + 1)..(d + k) = {}
      BY <1>3, <2>1
    <3>2. SumOf(V, 1..k) = 0
      BY <1>11, <3>1, SumOfNone
    <3> QED
      BY <1>5, <1>9, <1>10, <1>15, <3>2
  <2>2. CASE d # n
    BY <1>3, <1>9, <1>14, <2>2
  <2> QED
    BY <2>1, <2>2
<1>17. ASSUME \A e \in Range(shared) : e.key # key
       PROVE  \A i, j \in DOMAIN more : more[i].key = more[j].key => i = j
  <2>1. \A i, j \in 1..n : shared[i].key = shared[j].key => i = j
    BY <1>3 DEF Counted
  <2>2. \A i \in 1..n : shared[i].key # key
    BY <1>3, <1>17 DEF Range
  <2>3. \A i \in 1..k : i + d \in 1..n /\ more[i] = shared[i + d]
    BY <1>3, <1>6, <1>7
  <2> SUFFICES ASSUME NEW i \in 1..(k + 1), NEW j \in 1..(k + 1),
                      more[i].key = more[j].key
               PROVE  i = j
    BY <1>7
  <2>4. CASE i \in 1..k /\ j \in 1..k
    <3>1. i + d = j + d
      BY <2>1, <2>3, <2>4
    <3> QED
      BY <1>3, <3>1
  <2>5. CASE i = k + 1 /\ j = k + 1
    BY <2>5
  <2>6. CASE i \in 1..k /\ j = k + 1
    BY <1>4, <1>7, <2>2, <2>3, <2>6
  <2>7. CASE i = k + 1 /\ j \in 1..k
    BY <1>4, <1>7, <2>2, <2>3, <2>7
  <2> QED
    BY <1>3, <2>4, <2>5, <2>6, <2>7
<1>18. \A i \in DOMAIN more : SizeOf(more[i].reading) \in Nat
  <2> SUFFICES ASSUME NEW i \in 1..(k + 1) PROVE SizeOf(more[i].reading) \in Nat
    BY <1>7
  <2>1. CASE i = k + 1
    BY <1>4, <1>5, <1>7, <2>1 DEF size
  <2>2. CASE i # k + 1
    <3>1. i \in 1..k /\ i + d \in 1..n
      BY <1>3, <2>2
    <3> QED
      BY <1>2, <1>3, <1>6, <1>7, <3>1
  <2> QED
    BY <2>1, <2>2
<1> HIDE DEF result
<1>19. ASSUME result.readings = shared, result.held = held PROVE Counted(result.readings, result.held)
  BY <1>19
<1>20. ASSUME ~(size > SharedCap), \A e \in Range(shared) : e.key # key,
              result.readings = more, result.held = LeftHeld(shared, held, size)
       PROVE  Counted(result.readings, result.held)
  <2> DEFINE left == LeftHeld(shared, held, size)
  <2>1. left <= SharedCap /\ left = PixelsOf(more, DOMAIN more)
    BY <1>15, <1>16, <1>20
  <2>2. \A i, j \in DOMAIN more : more[i].key = more[j].key => i = j
    BY <1>17, <1>20
  <2> HIDE DEF left
  <2>3. Counted(more, left)
    BY <1>7, <1>18, <2>1, <2>2 DEF Counted
  <2> QED
    BY <1>20, <2>3 DEF left
<1>21. Counted(result.readings, result.held)
  BY <1>1, <1>19, <1>20
<1> QED
  BY <1>21 DEF result

CountInv == Counted(readings, sharedHeld)

\* A picture decoded has as many pixels as its file has colours.
LEMMA PixelsAreCounted ==
    ASSUME NEW how, NEW file \in DOMAIN Files
    PROVE  SizeOf(ReadingOf(how, file)) \in Nat
<1> DEFINE row == Files[file].colours
           seenAs(i) == IF row[i] = Clear THEN [class |-> NoClass, fell |-> FALSE, near |-> FALSE]
                        ELSE ClassOf(how, row[i])
           classAt(i) == IF seenAs(i).class = Unmatched THEN NoClass ELSE seenAs(i).class
           classes == [i \in DOMAIN row |-> classAt(i)]
<1>1. ReadingOf(how, file).classes = classes
  BY DEF ReadingOf
<1>2. row \in Seq(Int)
  BY LoopAssumption DEF LoopAssumption
<1> HIDE DEF classAt, row
<1>3. DOMAIN row = 1..Len(row) /\ Len(row) \in Nat
  BY <1>2
<1> DEFINE all == {classAt(i) : i \in DOMAIN row}
<1>4. classes \in [1..Len(row) -> all]
  BY <1>3
<1> HIDE DEF all, classes
<1>5. classes \in Seq(all)
  BY <1>3, <1>4
<1> QED
  BY <1>1, <1>5 DEF SizeOf

LEMMA CountHolds ==
    ASSUME LoopInv, CountInv, [LoopNext]_loopVars
    PROVE  CountInv'
<1>1. CASE UNCHANGED <<readings, sharedHeld>>
  BY <1>1 DEF CountInv
<1>2. CASE readings' = <<>> /\ sharedHeld' = 0
  <2>1. IsSeq(<<>>) /\ DOMAIN <<>> = {}
    <3>1. <<>> \in Seq({}) /\ DOMAIN <<>> = {}
      OBVIOUS
    <3> QED
      BY <3>1 DEF IsSeq
  <2>2. PixelsOf(<<>>, {}) = 0
    BY PixelsAreASum, SumOfNone, FS_EmptySet
  <2>3. 0 <= SharedCap
    BY LoopAssumption DEF LoopAssumption
  <2>4. Counted(<<>>, 0)
    BY <2>1, <2>2, <2>3 DEF Counted
  <2> QED
    BY <1>2, <2>4 DEF CountInv
<1>3. ASSUME NEW r \in Readers, DecodeFrame(r) PROVE CountInv'
  <2> DEFINE j == readJob[r]
             seen == ReadingOf(HowOf(j.img, j.img.kind), NextFile(j))
             result == Keep(readings, sharedHeld, SharedKey(j), seen)
  <2>1. Busy(r) /\ j.stage = "decode" /\ readings' = result.readings /\ sharedHeld' = result.held
    BY <1>3 DEF DecodeFrame, Job
  <2>2. NextFile(j) \in DOMAIN Files
    <3>1. JobIs(r)
      BY DEF LoopInv
    <3>2. j.img \in Images /\ Len(j.got) < FramesOf(j.img) /\ IsSeq(j.got)
      BY <2>1, <3>1 DEF JobIs, HasPicture, PicturesAre
    <3>3. Len(j.got) \in Nat
      BY <3>2, SeqGrows
    <3> HIDE DEF j
    <3>4. CASE ~IsLoop(j.img)
      BY <3>2, <3>4 DEF NextFile, Images
    <3>5. CASE IsLoop(j.img)
      <4>1. j.img.frames \in Seq(LoopFrames)
        BY <3>2 DEF Images
      <4>2. Len(j.got) + 1 \in DOMAIN j.img.frames
        BY <3>2, <3>3, <3>5, <4>1 DEF FramesOf
      <4>3. j.img.frames[Len(j.got) + 1] \in LoopFrames
        BY <4>1, <4>2
      <4>4. j.img.frames[Len(j.got) + 1].file \in DOMAIN Files
        BY <4>3 DEF LoopFrames
      <4> QED
        BY <3>5, <4>4 DEF NextFile
    <3> QED
      BY <3>4, <3>5
  <2>3. SizeOf(seen) \in Nat
    BY <2>2, PixelsAreCounted
  <2> HIDE DEF seen
  <2>4. Counted(result.readings, result.held)
    BY <2>3, KeepCounts DEF CountInv
  <2> HIDE DEF result
  <2> QED
    BY <2>1, <2>4 DEF CountInv
<1>4. \/ UNCHANGED <<readings, sharedHeld>>
      \/ readings' = <<>> /\ sharedHeld' = 0
      \/ \E r \in Readers : DecodeFrame(r)
  <2>1. CASE UNCHANGED loopVars
    BY <2>1 DEF loopVars
  <2>2. CASE TickWall
    BY <2>2 DEF TickWall
  <2>3. ASSUME NEW m \in LoopMaps,
               \/ TakeLoopWarnings(m) \/ DropSpareFrames(m)
               \/ \E bytes \in Budgets : SetBudget(m, bytes)
        PROVE  UNCHANGED <<readings, sharedHeld>> \/ (readings' = <<>> /\ sharedHeld' = 0)
    BY <2>3 DEF TakeLoopWarnings, DropSpareFrames, SetBudget
  <2>4. ASSUME NEW m \in LoopMaps, NEW id \in LoopIds,
               \/ DropLoop(m, id)
               \/ \E img \in LoopOffers : HandInLoop(m, id, img) \/ RefuseLoop(m, id, img)
               \/ \E r \in Readers : ReadLoop(r, m, id)
        PROVE  UNCHANGED <<readings, sharedHeld>>
    BY <2>4 DEF DropLoop, HandInLoop, RefuseLoop, ReadLoop
  <2>5. ASSUME NEW r \in Readers, LookForFrame(r) \/ ReadLoopFails(r) \/ LandLoop(r)
        PROVE  UNCHANGED <<readings, sharedHeld>>
    BY <2>5 DEF LookForFrame, ReadLoopFails, LandLoop
  <2>6. \/ TickWall \/ UNCHANGED loopVars
        \/ \E m \in LoopMaps :
              \/ TakeLoopWarnings(m) \/ DropSpareFrames(m)
              \/ \E bytes \in Budgets : SetBudget(m, bytes)
              \/ \E id \in LoopIds :
                    \/ DropLoop(m, id)
                    \/ \E img \in LoopOffers : HandInLoop(m, id, img) \/ RefuseLoop(m, id, img)
                    \/ \E r \in Readers : ReadLoop(r, m, id)
        \/ \E r \in Readers : LookForFrame(r) \/ DecodeFrame(r) \/ ReadLoopFails(r) \/ LandLoop(r)
    BY DEF LoopNext
  <2> QED
    BY <2>1, <2>2, <2>3, <2>4, <2>5, <2>6
<1> QED
  BY <1>1, <1>2, <1>3, <1>4

LEMMA InitCounts == LoopInit => CountInv
<1> SUFFICES ASSUME LoopInit PROVE CountInv
  OBVIOUS
<1>1. readings = <<>> /\ sharedHeld = 0
  BY DEF LoopInit
<1>2. IsSeq(<<>>) /\ DOMAIN <<>> = {}
  <2>1. <<>> \in Seq({}) /\ DOMAIN <<>> = {}
    OBVIOUS
  <2> QED
    BY <2>1 DEF IsSeq
<1>3. PixelsOf(<<>>, {}) = 0
  BY PixelsAreASum, SumOfNone, FS_EmptySet
<1>4. 0 <= SharedCap
  BY LoopAssumption DEF LoopAssumption
<1>5. Counted(<<>>, 0)
  BY <1>2, <1>3, <1>4 DEF Counted
<1> QED
  BY <1>1, <1>5 DEF CountInv

-----------------------------------------------------------------------------
(* Theorems.                                                               *)

\* Whatever is taken from a loop replaced, or from another map that read the
\* same file, every picture a loop has is its own file read its own way; and
\* the readings shared are each there once, hold what is counted of them and
\* no more than their cap (spareFrame, ImageKey, Classified.Read, Keep).
THEOREM ReadingsServeAll == LoopSpec => []SharedReadingsAreTrue
<1>1. LoopInv /\ CountInv => SharedReadingsAreTrue
  BY InvIsTheirReading DEF CountInv, Counted, SharedReadingsAreTrue, SharedCountsItself
<1>2. LoopInit => CountInv
  BY InitCounts
<1>3. LoopInv /\ CountInv /\ [LoopNext]_loopVars => CountInv'
  BY CountHolds
<1> QED
  BY <1>1, <1>2, <1>3, LoopInvariant, PTL DEF LoopSpec

\* From the first time a loop's pictures land it is drawn at every moment, over
\* its gaps and while a refresh of it is read; and no moment shows a later
\* frame while there is one of its own time or before (RasterAt, frameShownAt).
THEOREM LoopsAreDrawn == LoopSpec => []LoopsHoldTheMoment
<1>1. LoopInv => LoopsHoldTheMoment
  BY InvHoldsMoment
<1> QED
  BY <1>1, LoopInvariant, PTL
-----------------------------------------------------------------------------
(***************************************************************************)
(* What is drawn once and given again: the frame and the rows a renderer   *)
(* holds. The rows held are those the last input drawn draws from nothing, *)
(* and an input that passes the comparisons of Renderer.unchanged has the  *)
(* content of that one: what cannot be compared has a version or a look,   *)
(* and equal numbers mean equal contents (SameSince).                      *)
(***************************************************************************)

InputFields == FrameFields \union {"look", "version"}

\* An input as the program makes it, with its counted changes.
WellFormed(in) ==
  /\ DOMAIN in = InputFields /\ in = [f \in InputFields |-> in[f]]
  /\ in.phase \in BOOLEAN /\ in.tiles \in Seq(Range(in.tiles))
  /\ in.look \in 0..frames /\ in.version \in 0..frames

\* What was not counted as changed between two inputs is the same.
SameSince(a, b) ==
  /\ a.look = b.look => a.palette = b.palette
  /\ a.version = b.version =>
       /\ \A f \in Versioned : a[f] = b[f]
       /\ a.time = b.time \/ a.time = 0 \/ b.time = 0

HeldIsLast ==
  heldRows # <<>> \/ heldDrawn => heldRows = Emitted(lastInput) /\ rowSums = RowSums(lastInput)

GivenIsHeld == shown = "given" => heldRows = Emitted(frameGiven)

FrameInv ==
  /\ frames \in Nat
  /\ WellFormed(frameGiven) /\ WellFormed(lastInput) /\ SameSince(frameGiven, lastInput)
  /\ HeldIsLast /\ GivenIsHeld

\* A frame is drawn from its content and coloured by its palette.
LEMMA ContentDecides ==
    ASSUME NEW a, NEW b, Content(a) = Content(b), a.palette = b.palette
    PROVE  Emitted(a) = Emitted(b)
BY DEF Emitted, RowCells

\* The order of the tiles is no part of the content.
LEMMA TilesInAnyOrder ==
    ASSUME NEW in, WellFormed(in)
    PROVE  Emitted([in EXCEPT !.tiles = Reverse(@)]) = Emitted(in)
<1> DEFINE tiles == in.tiles
           other == [in EXCEPT !.tiles = Reverse(@)]
<1>1. tiles \in Seq(Range(tiles))
  BY DEF WellFormed
<1>2. Range(Reverse(tiles)) = Range(tiles)
  <2>1. DOMAIN tiles = 1..Len(tiles) /\ Len(tiles) \in Nat
    BY <1>1
  <2>2. DOMAIN Reverse(tiles) = 1..Len(tiles)
    BY <2>1 DEF Reverse
  <2>3. \A i \in 1..Len(tiles) : Reverse(tiles)[i] = tiles[(Len(tiles) - i) + 1]
    BY <2>1 DEF Reverse
  <2>4. \A i \in 1..Len(tiles) : (Len(tiles) - i) + 1 \in 1..Len(tiles) /\ (Len(tiles) - ((Len(tiles) - i) + 1)) + 1 = i
    BY <2>1
  <2>5. \A x \in Range(tiles) : x \in Range(Reverse(tiles))
    <3> TAKE x \in Range(tiles)
    <3>1. PICK i \in 1..Len(tiles) : x = tiles[i]
      BY <2>1 DEF Range
    <3>2. x = Reverse(tiles)[(Len(tiles) - i) + 1]
      BY <2>3, <2>4, <3>1
    <3> QED
      BY <2>2, <2>4, <3>2 DEF Range
  <2>6. \A x \in Range(Reverse(tiles)) : x \in Range(tiles)
    BY <2>1, <2>2, <2>3, <2>4 DEF Range
  <2> QED
    BY <2>5, <2>6
<1>3. DOMAIN in = InputFields /\ "tiles" \in InputFields /\ "phase" \in InputFields /\ "palette" \in InputFields
      /\ "markers" \in InputFields
  BY DEF WellFormed, InputFields, FrameFields
<1>4. other.tiles = Reverse(tiles) /\ other.phase = in.phase /\ other.markers = in.markers /\ other.palette = in.palette
  BY <1>3
<1>5. Content(other) = Content(in)
  BY <1>2, <1>3, <1>4 DEF Content
<1> QED
  BY <1>4, <1>5, ContentDecides

\* An input that passes every comparison draws the frame held.
LEMMA UnchangedDrawsTheSame ==
    ASSUME FrameInv, Unchanged(frameGiven)
    PROVE  Emitted(frameGiven) = Emitted(lastInput)
<1> DEFINE a == frameGiven
           b == lastInput
           blinks == \E m \in Range(a.markers) : m.blink
<1>1. WellFormed(a) /\ WellFormed(b) /\ SameSince(a, b)
  BY DEF FrameInv
<1>2. a.tiles = b.tiles /\ a.markers = b.markers /\ (blinks => a.phase = b.phase) /\ a.version = b.version
      /\ a.budget = b.budget
  BY DEF Unchanged, SameOverlays
<1>3. a.look = b.look /\ a.stale = b.stale /\ (a.time = 0) = (b.time = 0) /\ a.labels = b.labels
      /\ a.missing = b.missing /\ a.footer = b.footer /\ a.credit = b.credit /\ a.notice = b.notice
  BY DEF Unchanged, SameLook
<1>4. a.palette = b.palette
      /\ a.moment = b.moment /\ a.alerts = b.alerts /\ a.words = b.words /\ a.bands = b.bands
      /\ (a.time = b.time \/ a.time = 0 \/ b.time = 0)
  BY <1>1, <1>2, <1>3 DEF SameSince, Versioned
<1>5. \A f \in InputFields \ {"phase"} : a[f] = b[f]
  BY <1>2, <1>3, <1>4 DEF InputFields, FrameFields
<1>6. DOMAIN a = InputFields /\ DOMAIN b = InputFields
      /\ a = [f \in InputFields |-> a[f]] /\ b = [f \in InputFields |-> b[f]]
  BY <1>1 DEF WellFormed
<1>7. CASE blinks
  <2>1. \A f \in InputFields : a[f] = b[f]
    BY <1>2, <1>5, <1>7
  <2> QED
    BY <1>6, <2>1
<1>8. CASE ~blinks
  <2>1. Content(a) = [a EXCEPT !.tiles = InOrder(Range(a.tiles)), !.phase = TRUE]
    BY <1>8, <1>1 DEF Content, WellFormed
  <2>2. Content(b) = [b EXCEPT !.tiles = InOrder(Range(b.tiles)), !.phase = TRUE]
    BY <1>8, <1>1, <1>2 DEF Content, WellFormed
  <2>3. Content(a) = [f \in InputFields |-> IF f = "phase" THEN TRUE
                                            ELSE IF f = "tiles" THEN InOrder(Range(a.tiles)) ELSE a[f]]
    BY <1>6, <2>1
  <2>4. Content(b) = [f \in InputFields |-> IF f = "phase" THEN TRUE
                                            ELSE IF f = "tiles" THEN InOrder(Range(a.tiles)) ELSE b[f]]
    BY <1>2, <1>6, <2>2
  <2>5. Content(a) = Content(b)
    BY <1>5, <2>3, <2>4
  <2> QED
    BY <1>4, <2>5, ContentDecides
<1> QED
  BY <1>7, <1>8

\* A row built again only where its sum is another is the row of the new input.
LEMMA RowsServe ==
    ASSUME FrameInv,
           NEW r \in Rows, heldRows # <<>>, rowSums[r] = RowSums(frameGiven)[r]
    PROVE  heldRows[r] = Emitted(frameGiven)[r]
<1>1. heldRows = Emitted(lastInput) /\ rowSums = RowSums(lastInput)
  BY DEF FrameInv, HeldIsLast
<1>2. RowSums(lastInput)[r] = [cells |-> RowCells(lastInput)[r], look |-> lastInput.look]
  BY DEF RowSums
<1>3. RowSums(frameGiven)[r] = [cells |-> RowCells(frameGiven)[r], look |-> frameGiven.look]
  BY DEF RowSums
<1>4. RowCells(lastInput)[r] = RowCells(frameGiven)[r] /\ frameGiven.look = lastInput.look
  BY <1>1, <1>2, <1>3
<1>5. frameGiven.palette = lastInput.palette
  BY <1>4 DEF FrameInv, SameSince
<1> QED
  BY <1>1, <1>4, <1>5 DEF Emitted

LEMMA FirstFrame == FrameInit => FrameInv
<1> SUFFICES ASSUME FrameInit PROVE FrameInv
  OBVIOUS
<1>1. PICK in \in FrameInputs :
         frameGiven = [f \in DOMAIN in \union {"look", "version"} |-> IF f \in DOMAIN in THEN in[f] ELSE 0]
  BY DEF FrameInit
<1>2. DOMAIN in = FrameFields /\ in.phase \in BOOLEAN /\ in.tiles \in Seq(Range(in.tiles))
  <2>1. DOMAIN in = FrameFields /\ in \in FrameGivens
    BY FrameAssumption DEF FrameGivens
  <2>2. IsField("phase", in.phase) /\ IsField("tiles", in.tiles)
    BY <2>1, FrameAssumption DEF FrameFields
  <2> QED
    BY <2>1, <2>2 DEF IsField, AreTiles
<1>3. frameGiven = [f \in InputFields |-> IF f \in FrameFields THEN in[f] ELSE 0]
  BY <1>1, <1>2 DEF InputFields
<1>4. frameGiven.phase = in.phase /\ frameGiven.tiles = in.tiles /\ frameGiven.look = 0 /\ frameGiven.version = 0
  BY <1>3 DEF InputFields, FrameFields
<1>5. frames = 0 /\ lastInput = frameGiven /\ heldRows = <<>> /\ heldDrawn = FALSE /\ shown = "moved"
  BY DEF FrameInit
<1>6. WellFormed(frameGiven)
  BY <1>2, <1>3, <1>4, <1>5 DEF WellFormed
<1> QED
  BY <1>5, <1>6 DEF FrameInv, SameSince, HeldIsLast, GivenIsHeld

\* A frame drawn is its input's, kept whole, kept in rows or built.
LEMMA DrawServes == FrameInv /\ Draw => FrameInv'
<1> SUFFICES ASSUME FrameInv, Draw PROVE FrameInv'
  OBVIOUS
<1>0. frameGiven' = frameGiven /\ frames' = frames /\ shown' = "given"
  BY DEF Draw
<1>1. CASE Unchanged(frameGiven)
  <2>1. lastInput' = lastInput /\ heldRows' = heldRows /\ rowSums' = rowSums /\ heldDrawn' = heldDrawn
    BY <1>1 DEF Draw
  <2>2. heldRows = Emitted(frameGiven)
    BY <1>1, UnchangedDrawsTheSame DEF FrameInv, HeldIsLast, Unchanged
  <2> QED
    BY <1>0, <2>1, <2>2 DEF FrameInv, WellFormed, SameSince, HeldIsLast, GivenIsHeld
<1>2. CASE ~Unchanged(frameGiven)
  <2>1. rowSums' = RowSums(frameGiven) /\ lastInput' = frameGiven
        /\ heldRows' = [r \in Rows |-> IF heldRows # <<>> /\ rowSums[r] = RowSums(frameGiven)[r]
                                       THEN heldRows[r] ELSE Emitted(frameGiven)[r]]
    BY <1>2 DEF Draw
  <2>2. \A r \in Rows : heldRows'[r] = Emitted(frameGiven)[r]
    BY <2>1, RowsServe
  <2>3. Emitted(frameGiven) = [r \in Rows |-> Emitted(frameGiven)[r]]
    BY DEF Emitted
  <2>4. heldRows' = Emitted(frameGiven)
    BY <2>1, <2>2, <2>3
  <2> QED
    BY <1>0, <2>1, <2>4 DEF FrameInv, WellFormed, SameSince, HeldIsLast, GivenIsHeld
<1> QED
  BY <1>1, <1>2

\* A change of the input is seen by a comparison, or counted.
LEMMA TweakIsCounted == ASSUME NEW t \in FrameTweaks PROVE FrameInv /\ Tweak(t) => FrameInv'
<1> SUFFICES ASSUME FrameInv, Tweak(t) PROVE FrameInv'
  OBVIOUS
<1>1. /\ DOMAIN t \subseteq FrameFields
      /\ "phase" \in DOMAIN t => t.phase \in BOOLEAN
      /\ "tiles" \in DOMAIN t => t.tiles \in Seq(Range(t.tiles))
      /\ "time" \in DOMAIN t => t.time = 0 \/ DOMAIN t \cap Versioned # {}
  <2>1. /\ DOMAIN t \subseteq FrameFields /\ t \in FrameGivens
        /\ "time" \in DOMAIN t => t.time = 0 \/ DOMAIN t \cap Versioned # {}
    BY FrameAssumption DEF FrameGivens
  <2>2. \A f \in DOMAIN t : IsField(f, t[f])
    BY <2>1, FrameAssumption
  <2> QED
    BY <2>1, <2>2 DEF IsField, AreTiles
<1>2. /\ frames' = frames + 1 /\ shown' = "moved"
      /\ lastInput' = lastInput /\ heldRows' = heldRows /\ rowSums' = rowSums /\ heldDrawn' = heldDrawn
      /\ frames \in Nat
  BY DEF Tweak, FrameInv
<1>3. DOMAIN frameGiven = InputFields
  BY DEF FrameInv, WellFormed
<1>4. frameGiven' = [f \in InputFields |-> IF f \in DOMAIN t THEN t[f]
                              ELSE IF f = "look" /\ "palette" \in DOMAIN t THEN frames'
                              ELSE IF f = "version" /\ DOMAIN t \cap Versioned # {} THEN frames'
                              ELSE frameGiven[f]]
  BY <1>3 DEF Tweak
<1>5. "look" \notin DOMAIN t /\ "version" \notin DOMAIN t
  BY <1>1 DEF FrameFields
<1>6. /\ frameGiven'.look = IF "palette" \in DOMAIN t THEN frames + 1 ELSE frameGiven.look
      /\ frameGiven'.version = IF DOMAIN t \cap Versioned # {} THEN frames + 1 ELSE frameGiven.version
  BY <1>2, <1>4, <1>5 DEF InputFields
<1>7. \A f \in FrameFields : frameGiven'[f] = IF f \in DOMAIN t THEN t[f] ELSE frameGiven[f]
  <2> TAKE f \in FrameFields
  <2>1. f # "look" /\ f # "version" /\ f \in InputFields
    BY DEF FrameFields, InputFields
  <2> QED
    BY <1>4, <2>1
<1>8. WellFormed(frameGiven)'
  <2>1. frameGiven'.phase \in BOOLEAN
    BY <1>1, <1>7 DEF FrameInv, WellFormed, FrameFields
  <2>2. frameGiven'.tiles \in Seq(Range(frameGiven'.tiles))
    BY <1>1, <1>7 DEF FrameInv, WellFormed, FrameFields
  <2>3. frameGiven'.look \in 0..frames' /\ frameGiven'.version \in 0..frames'
    BY <1>2, <1>6 DEF FrameInv, WellFormed
  <2> QED
    BY <1>4, <2>1, <2>2, <2>3 DEF WellFormed
<1>9. WellFormed(lastInput)'
  BY <1>2 DEF FrameInv, WellFormed
<1>10. SameSince(frameGiven, lastInput)'
  <2>2. lastInput.look \in 0..frames /\ lastInput.version \in 0..frames
    BY DEF FrameInv, WellFormed
  <2>3. frameGiven'.look = lastInput.look => frameGiven'.palette = lastInput.palette
    BY <1>2, <1>6, <1>7, <2>2 DEF FrameInv, SameSince, FrameFields
  <2>4. ASSUME frameGiven'.version = lastInput.version
        PROVE  /\ \A f \in Versioned : frameGiven'[f] = lastInput[f]
               /\ frameGiven'.time = lastInput.time \/ frameGiven'.time = 0 \/ lastInput.time = 0
    <3>1. DOMAIN t \cap Versioned = {} /\ frameGiven.version = lastInput.version
      BY <1>2, <1>6, <2>2, <2>4
    <3>2. /\ \A f \in Versioned : frameGiven[f] = lastInput[f]
          /\ frameGiven.time = lastInput.time \/ frameGiven.time = 0 \/ lastInput.time = 0
      BY <3>1 DEF FrameInv, SameSince
    <3>3. \A f \in Versioned : f \in FrameFields /\ f \notin DOMAIN t
      BY <3>1 DEF Versioned, FrameFields
    <3>4. frameGiven'.time = 0 \/ frameGiven'.time = frameGiven.time
      BY <1>1, <1>7, <3>1 DEF FrameFields
    <3> QED
      BY <1>7, <3>2, <3>3, <3>4
  <2> QED
    BY <1>2, <2>3, <2>4 DEF SameSince
<1>11. HeldIsLast' /\ GivenIsHeld'
  BY <1>2 DEF FrameInv, HeldIsLast, GivenIsHeld
<1> QED
  BY <1>2, <1>8, <1>9, <1>10, <1>11 DEF FrameInv

LEMMA FrameInvNext == FrameInv /\ [FrameNext]_frameVars => FrameInv'
<1> SUFFICES ASSUME FrameInv, [FrameNext]_frameVars PROVE FrameInv'
  OBVIOUS
<1>1. CASE Draw
  BY <1>1, DrawServes
<1>2. CASE DrawFails
  <2>1. shown' = "error" /\ heldDrawn' = FALSE
        /\ UNCHANGED <<frameGiven, lastInput, heldRows, rowSums, frames>>
    BY <1>2 DEF DrawFails
  <2> QED
    BY <2>1 DEF FrameInv, WellFormed, SameSince, HeldIsLast, GivenIsHeld
<1>3. CASE \E t \in FrameTweaks : Tweak(t)
  BY <1>3, TweakIsCounted
<1>4. CASE UNCHANGED frameVars
  BY <1>4 DEF frameVars, FrameInv, WellFormed, SameSince, HeldIsLast, GivenIsHeld
<1> QED
  BY <1>1, <1>2, <1>3, <1>4 DEF FrameNext

\* The frame given is the one its input draws from nothing, in whatever order
\* its tiles came: what frame.go reuses, a whole frame or a row, is what it
\* would have built.
THEOREM FramesAreTheirInputs == FrameSpec => []FrameIsItsInputs
<1>1. FrameInv => FrameIsItsInputs
  BY TilesInAnyOrder DEF FrameInv, GivenIsHeld, FrameIsItsInputs
<1> QED
  BY <1>1, FirstFrame, FrameInvNext, PTL DEF FrameSpec

-----------------------------------------------------------------------------
(***************************************************************************)
(* The contest for a frame's text, for any screen, claims and numbers. The *)
(* claims are taken one after the other (Composed), each by one step of a  *)
(* fold: a text is written whole or not at all, in cells that are free     *)
(* (Sheet), and only a label's own claim, which comes once (Lined), says   *)
(* anything of that label (OthersSayNothing).                              *)
(***************************************************************************)

Contest == INSTANCE FoldTheorems WITH Folding <- Claimed

LEMMA ComposedIsAFold ==
    ASSUME NEW in
    PROVE  Composed(in) = Contest!FoldOf(in, NoSheet, Claims(in))
BY DEF Composed, FoldLeft, MapThenFoldSet, Contest!FoldOf, Contest!FoldsUp, Max, Contest!Max

\* A cell has one text at most.
Sheet(s) ==
  /\ s = [text |-> s.text, boxes |-> s.boxes, held |-> s.held, dropped |-> s.dropped]
  /\ \A t \in s.text : t = [at |-> t.at, by |-> t.by] /\ t.at \in Screen
  /\ \A t, u \in s.text : t.at = u.at => t = u

\* New text in cells that are free.
Texts(cells, who) == {[at |-> c, by |-> who] : c \in cells}

LEMMA TextsAdd ==
    ASSUME NEW s, Sheet(s), NEW r, r = [text |-> r.text, boxes |-> r.boxes, held |-> r.held, dropped |-> r.dropped],
           NEW cells, cells \subseteq Screen, cells \cap Occupied(s) = {}, NEW who,
           r.text = s.text \union Texts(cells, who)
    PROVE  Sheet(r)
<1>1. \A t \in r.text : t = [at |-> t.at, by |-> t.by] /\ t.at \in Screen
  BY DEF Sheet, Texts
<1>2. ASSUME NEW t \in r.text, NEW u \in r.text, t.at = u.at PROVE t = u
  <2>1. t \in s.text \/ (t.at \in cells /\ t = [at |-> t.at, by |-> who])
    BY DEF Texts
  <2>2. u \in s.text \/ (u.at \in cells /\ u = [at |-> u.at, by |-> who])
    BY DEF Texts
  <2>3. \A v \in s.text : v.at \notin cells
    BY DEF Occupied
  <2> QED
    BY <1>2, <2>1, <2>2, <2>3 DEF Sheet
<1> QED
  BY <1>1, <1>2 DEF Sheet

LEMMA WriteIs ==
    ASSUME NEW s, Sheet(s), NEW col, NEW row, NEW width, NEW who
    PROVE  LET r == Write(s, col, row, width, who)
           IN  /\ Sheet(r)
               /\ r.boxes = s.boxes /\ r.held = s.held /\ r.dropped = s.dropped
               /\ r.text = IF CanWrite(s, col, row, width)
                           THEN s.text \union Texts(Run(col, row, width), who) ELSE s.text
<1> DEFINE r == Write(s, col, row, width, who)
<1>1. CASE CanWrite(s, col, row, width)
  <2> DEFINE new == Texts(Run(col, row, width), who)
  <2>1. r = [s EXCEPT !.text = @ \union new]
    BY <1>1 DEF Write, Texts
  <2>2. r = [text |-> s.text \union new, boxes |-> s.boxes, held |-> s.held, dropped |-> s.dropped]
    <3>1. s = [text |-> s.text, boxes |-> s.boxes, held |-> s.held, dropped |-> s.dropped]
      BY DEF Sheet
    <3> HIDE DEF new
    <3> QED
      BY <2>1, <3>1
  <2>3. Run(col, row, width) \subseteq Screen /\ Run(col, row, width) \cap Occupied(s) = {}
    BY <1>1 DEF CanWrite
  <2> HIDE DEF new
  <2>4. r.text = s.text \union new /\ r.boxes = s.boxes /\ r.held = s.held /\ r.dropped = s.dropped
    BY <2>2
  <2>5. r = [text |-> r.text, boxes |-> r.boxes, held |-> r.held, dropped |-> r.dropped]
    BY <2>2
  <2>6. Sheet(r)
    BY <2>3, <2>4, <2>5, TextsAdd DEF new
  <2> QED
    BY <1>1, <2>4, <2>6 DEF new
<1>2. CASE ~CanWrite(s, col, row, width)
  BY <1>2 DEF Write
<1> QED
  BY <1>1, <1>2

\* A label at an anchor: nothing, or its whole text there.
LEMMA AnchoredIs ==
    ASSUME NEW s, Sheet(s), NEW l, NEW spot, NEW width, NEW form
    PROVE  LET r == Anchored(s, l, spot, width, form)
               col == StartOf(l, spot, width)
           IN  /\ Sheet(r) /\ r.dropped = s.dropped
               /\ \/ r = s
                  \/ /\ CanWrite(s, col, spot[2], width)
                     /\ r.text = s.text \union Texts(Run(col, spot[2], width), <<l.id, form>>)
<1> DEFINE r == Anchored(s, l, spot, width, form)
           col == StartOf(l, spot, width)
           row == spot[2]
           who == <<l.id, form>>
           w == Write(s, col, row, width, who)
           box == BoxAt(l, col, row, width)
<1>1. CASE r # s
  <2>1. CanWrite(s, col, row, width) /\ r = [w EXCEPT !.boxes = @ \union {box}]
    BY <1>1 DEF Anchored
  <2> HIDE DEF box, col, row, who
  <2>2. Sheet(w) /\ w.dropped = s.dropped /\ w.text = s.text \union Texts(Run(col, row, width), who)
    BY <2>1, WriteIs
  <2> HIDE DEF w
  <2>3. r = [text |-> w.text, boxes |-> w.boxes \union {box}, held |-> w.held, dropped |-> w.dropped]
    BY <2>1, <2>2 DEF Sheet
  <2>4. Sheet(r)
    BY <2>2, <2>3 DEF Sheet
  <2> QED
    BY <2>1, <2>2, <2>3, <2>4 DEF col, row, who
<1> QED
  BY <1>1

\* The text of a label is at an anchor.
TextAt(s, r, l, spot, form, width) ==
  LET col == StartOf(l, spot, width)
  IN  /\ l.anchors \in Seq(Int \X Int) => spot \in Int \X Int
      /\ CanWrite(s, col, spot[2], width)
      /\ r.text = s.text \union Texts(Run(col, spot[2], width), <<l.id, form>>)

\* A label at one of its anchors.
LEMMA LabelAtIs ==
    ASSUME NEW s, Sheet(s), NEW l, NEW form, NEW width
    PROVE  LET r == LabelAt(s, l, form, width)
           IN  /\ Sheet(r) /\ r.dropped = s.dropped
               /\ r = s \/ \E spot : TextAt(s, r, l, spot, form, width)
<1> DEFINE r == LabelAt(s, l, form, width)
           taken == {k \in DOMAIN l.anchors : Anchored(s, l, l.anchors[k], width, form) # s}
           spot == l.anchors[Min(taken)]
<1>1. r = IF taken = {} THEN s ELSE Anchored(s, l, spot, width, form)
  BY DEF LabelAt
<1>2. CASE taken = {}
  BY <1>1, <1>2
<1>3. CASE taken # {}
  <2>1. l.anchors \in Seq(Int \X Int) => spot \in Int \X Int
    <3> SUFFICES ASSUME l.anchors \in Seq(Int \X Int) PROVE spot \in Int \X Int
      OBVIOUS
    <3>1. taken \subseteq Nat /\ taken \subseteq DOMAIN l.anchors
      OBVIOUS
    <3> HIDE DEF taken
    <3>2. Min(taken) \in DOMAIN l.anchors
      BY <1>3, <3>1, LeastOf
    <3> QED
      BY <3>2
  <2> HIDE DEF taken, spot
  <2>2. r = Anchored(s, l, spot, width, form)
    BY <1>1, <1>3
  <2> QED
    BY <2>1, <2>2, AnchoredIs DEF TextAt
<1> QED
  BY <1>2, <1>3

\* What a sheet says of a label: its text in a form, and what a host is told.
TextOf(s, id, form) == {t \in s.text : t.by = <<id, form>>}
ToldOf(s, id) == {d \in s.dropped : d.label = id}

Forms == {"whole", "short"}
Silent(s, r, id) == /\ \A form \in Forms : TextOf(r, id, form) = TextOf(s, id, form)
                    /\ ToldOf(r, id) = ToldOf(s, id)

\* A label in the frame whole, or short and told, or told that it is not.
Fair(s, l) ==
  LET shownAs == {d.shown : d \in ToldOf(s, l.id)}
      Width(form) == Cardinality(TextOf(s, l.id, form))
  IN \/ Width("whole") = l.width /\ shownAs = {}
     \/ Width("whole") = 0 /\ Width("short") = l.short /\ l.short > 0 /\ shownAs = {TRUE}
     \/ Width("whole") = 0 /\ Width("short") = 0 /\ shownAs = {FALSE}
     \/ Width("whole") = 0 /\ Width("short") = 0 /\ shownAs = {} /\ l.short = 0 /\ ~l.place

LEMMA TextsAreWide ==
    ASSUME NEW col \in Int, NEW row, NEW width \in Nat, NEW who
    PROVE  Cardinality(Texts(Run(col, row, width), who)) = width
<1> DEFINE across == col..(col + width - 1)
           f == [c \in across |-> [at |-> <<c, row>>, by |-> who]]
           texts == Texts(Run(col, row, width), who)
<1>1. IsFiniteSet(across) /\ Cardinality(across) = width
  BY FS_Interval
<1>2. \A c \in across : f[c] \in texts
  BY DEF Texts, Run
<1>3. \A t \in texts : \E c \in across : f[c] = t
  BY DEF Texts, Run
<1>4. \A c, d \in across : f[c] = f[d] => c = d
  <2> TAKE c, d \in across
  <2>1. f[c].at[1] = c /\ f[d].at[1] = d
    OBVIOUS
  <2> HIDE DEF f
  <2> QED
    BY <2>1
<1>5. f \in [across -> texts]
  BY <1>2
<1> HIDE DEF across, f, texts
<1>6. f \in Bijection(across, texts)
  BY <1>3, <1>4, <1>5, Zenon DEF Bijection, Injection, Surjection, IsInjective
<1>7. Cardinality(texts) = Cardinality(across)
  BY <1>1, <1>6, FS_Bijection DEF ExistsBijection
<1> QED
  BY <1>1, <1>7 DEF texts

\* A text is by one label in one form.
LEMMA TextAdded ==
    ASSUME NEW s, NEW r, NEW cells, NEW who, r.text = s.text \union Texts(cells, who)
    PROVE  /\ {t \in r.text : t.by = who} = {t \in s.text : t.by = who} \union Texts(cells, who)
           /\ \A whose : whose # who => {t \in r.text : t.by = whose} = {t \in s.text : t.by = whose}
<1>1. \A t \in Texts(cells, who) : t.by = who
  BY DEF Texts
<1> QED
  BY <1>1

\* A label at an anchor says nothing of another label, or in another form.
LEMMA LabelSays ==
    ASSUME NEW s, Sheet(s), NEW l, NEW form, NEW width, NEW id, NEW other, <<id, other>> # <<l.id, form>>
    PROVE  LET r == LabelAt(s, l, form, width)
           IN  TextOf(r, id, other) = TextOf(s, id, other) /\ ToldOf(r, id) = ToldOf(s, id)
<1> DEFINE r == LabelAt(s, l, form, width)
           who == <<l.id, form>>
           whose == <<id, other>>
<1>1. r.dropped = s.dropped /\ (r = s \/ \E cells : r.text = s.text \union Texts(cells, who))
  BY LabelAtIs DEF TextAt
<1> HIDE DEF r
<1>2. {t \in r.text : t.by = whose} = {t \in s.text : t.by = whose}
  <2>1. whose # who
    OBVIOUS
  <2> HIDE DEF whose, who
  <2>2. CASE r = s
    BY <2>2
  <2>3. CASE r # s
    <3>1. PICK cells : r.text = s.text \union Texts(cells, who)
      BY <1>1, <2>3
    <3> QED
      BY <2>1, <3>1, TextAdded
  <2> QED
    BY <2>2, <2>3
<1> QED
  BY <1>1, <1>2 DEF TextOf, ToldOf, r

\* And of itself that it is whole, or nothing.
LEMMA LabelIsWhole ==
    ASSUME NEW s, Sheet(s), NEW l, NEW form, NEW width \in Nat, l.anchors \in Seq(Int \X Int),
           TextOf(s, l.id, form) = {}
    PROVE  LET r == LabelAt(s, l, form, width)
           IN  r = s \/ (Cardinality(TextOf(r, l.id, form)) = width /\ width > 0)
<1> DEFINE r == LabelAt(s, l, form, width)
           who == <<l.id, form>>
<1> SUFFICES ASSUME r # s PROVE Cardinality(TextOf(r, l.id, form)) = width /\ width > 0
  OBVIOUS
<1>1. PICK spot : /\ spot \in Int \X Int /\ CanWrite(s, StartOf(l, spot, width), spot[2], width)
                  /\ r.text = s.text \union Texts(Run(StartOf(l, spot, width), spot[2], width), who)
  BY LabelAtIs DEF TextAt
<1> DEFINE col == StartOf(l, spot, width)
<1>2. col \in Int
  <2>1. spot[1] \in Int /\ width \div 2 \in Int
    BY <1>1
  <2> QED
    BY <2>1 DEF StartOf
<1>3. width > 0
  BY <1>1 DEF CanWrite
<1> HIDE DEF r, col
<1>4. TextOf(r, l.id, form) = Texts(Run(col, spot[2], width), who)
  <2>1. {t \in s.text : t.by = who} = {}
    BY DEF TextOf
  <2>2. r.text = s.text \union Texts(Run(col, spot[2], width), who)
    BY <1>1 DEF col
  <2> HIDE DEF who
  <2>3. {t \in r.text : t.by = who} = Texts(Run(col, spot[2], width), who)
    BY <2>1, <2>2, TextAdded
  <2> QED
    BY <2>3 DEF TextOf, who
<1> QED
  BY <1>2, <1>3, <1>4, TextsAreWide

\* No host is told where a label is placed at an anchor.
LEMMA LabelTells ==
    ASSUME NEW s, Sheet(s), NEW l, NEW form, NEW width
    PROVE  Sheet(LabelAt(s, l, form, width)) /\ LabelAt(s, l, form, width).dropped = s.dropped
BY LabelAtIs

\* A tale of a label is nothing of the text.
LEMMA TellingIs ==
    ASSUME NEW s, Sheet(s), NEW tale
    PROVE  LET r == [s EXCEPT !.dropped = @ \union {tale}]
           IN  Sheet(r) /\ r.text = s.text /\ r.dropped = s.dropped \union {tale}
<1> DEFINE r == [s EXCEPT !.dropped = @ \union {tale}]
<1>1. r = [text |-> s.text, boxes |-> s.boxes, held |-> s.held, dropped |-> s.dropped \union {tale}]
  BY DEF Sheet
<1> HIDE DEF r
<1>2. Sheet(r)
  BY <1>1 DEF Sheet
<1> QED
  BY <1>1, <1>2 DEF r

\* What placing a label comes to: its text in a form or in none, and a tale
\* of it unless it is whole or has no tale.
LEMMA PlacingIs ==
    ASSUME NEW s, Sheet(s), NEW l
    PROVE  LET r == PlaceOrShorten(s, l)
               whole == LabelAt(s, l, "whole", l.width)
               short == IF l.short > 0 THEN LabelAt(s, l, "short", l.short) ELSE s
               tale == [label |-> l.id, shown |-> short # s]
           IN  /\ Sheet(r) /\ Sheet(short)
               /\ \/ r = whole /\ whole # s
                  \/ r = s /\ l.short = 0 /\ ~l.place
                  \/ ~(l.short = 0 /\ ~l.place) /\ r.text = short.text /\ r.dropped = s.dropped \union {tale}
<1> DEFINE r == PlaceOrShorten(s, l)
           whole == LabelAt(s, l, "whole", l.width)
           short == IF l.short > 0 THEN LabelAt(s, l, "short", l.short) ELSE s
           tale == [label |-> l.id, shown |-> short # s]
           news == [short EXCEPT !.dropped = @ \union {tale}]
<1>1. Sheet(whole)
  BY LabelAtIs
<1>2. Sheet(short) /\ short.dropped = s.dropped
  BY LabelTells
<1>3. r = IF whole # s THEN whole ELSE IF l.short = 0 /\ ~l.place THEN s ELSE news
  BY DEF PlaceOrShorten
<1> HIDE DEF whole, short, tale
<1>4. Sheet(news) /\ news.text = short.text /\ news.dropped = short.dropped \union {tale}
  BY <1>2, TellingIs
<1> HIDE DEF news, r
<1>5. CASE whole # s
  BY <1>1, <1>2, <1>3, <1>5 DEF r, whole, short
<1>6. CASE whole = s /\ l.short = 0 /\ ~l.place
  BY <1>2, <1>3, <1>6 DEF r, short
<1>7. CASE whole = s /\ ~(l.short = 0 /\ ~l.place)
  <2>1. r = news
    BY <1>3, <1>7
  <2>2. Sheet(r) /\ r.text = short.text /\ r.dropped = s.dropped \union {tale}
    BY <1>2, <1>4, <2>1
  <2> QED
    BY <1>2, <1>7, <2>2 DEF r, short, tale
<1> QED
  BY <1>5, <1>6, <1>7

LEMMA PlacingOthers ==
    ASSUME NEW s, Sheet(s), NEW l, NEW id, id # l.id
    PROVE  Silent(s, PlaceOrShorten(s, l), id)
<1> DEFINE r == PlaceOrShorten(s, l)
           whole == LabelAt(s, l, "whole", l.width)
           short == IF l.short > 0 THEN LabelAt(s, l, "short", l.short) ELSE s
           tale == [label |-> l.id, shown |-> short # s]
<1>1. \/ r = whole \/ r = s
      \/ r.text = short.text /\ r.dropped = s.dropped \union {tale}
  BY PlacingIs
<1>2. \A form \in Forms : TextOf(whole, id, form) = TextOf(s, id, form)
  BY LabelSays
<1>3. ToldOf(whole, id) = ToldOf(s, id)
  BY LabelSays
<1>4. \A form \in Forms : TextOf(short, id, form) = TextOf(s, id, form)
  BY LabelSays
<1>5. tale.label # id
  OBVIOUS
<1> HIDE DEF whole, short, tale, r
<1>6. CASE r = whole
  BY <1>2, <1>3, <1>6 DEF Silent, r
<1>7. CASE r = s
  BY <1>7 DEF Silent, r
<1>8. CASE r.text = short.text /\ r.dropped = s.dropped \union {tale}
  <2>1. \A form \in Forms : TextOf(r, id, form) = TextOf(short, id, form)
    BY <1>8 DEF TextOf
  <2>2. ToldOf(r, id) = ToldOf(s, id)
    BY <1>5, <1>8 DEF ToldOf
  <2> QED
    BY <1>4, <2>1, <2>2 DEF Silent, r
<1> QED
  BY <1>1, <1>6, <1>7, <1>8

\* A label of which nothing was said is fairly placed.
LEMMA PlacingIsFair ==
    ASSUME NEW s, Sheet(s), NEW l,
           l.anchors \in Seq(Int \X Int), l.width \in Nat, l.short \in Nat,
           TextOf(s, l.id, "whole") = {}, TextOf(s, l.id, "short") = {}, ToldOf(s, l.id) = {}
    PROVE  Fair(PlaceOrShorten(s, l), l)
<1> DEFINE r == PlaceOrShorten(s, l)
           whole == LabelAt(s, l, "whole", l.width)
           short == IF l.short > 0 THEN LabelAt(s, l, "short", l.short) ELSE s
           tale == [label |-> l.id, shown |-> short # s]
           none == Cardinality({})
<1>1. \/ r = whole /\ whole # s
      \/ r = s /\ l.short = 0 /\ ~l.place
      \/ ~(l.short = 0 /\ ~l.place) /\ r.text = short.text /\ r.dropped = s.dropped \union {tale}
  BY PlacingIs
<1>2. Cardinality({}) = 0
  BY FS_EmptySet
<1>3. whole # s => Cardinality(TextOf(whole, l.id, "whole")) = l.width
  BY LabelIsWhole
<1>4. ToldOf(whole, l.id) = {}
  <2>1. whole.dropped = s.dropped
    BY LabelTells
  <2> QED
    BY <2>1 DEF ToldOf
<1>5. short # s => Cardinality(TextOf(short, l.id, "short")) = l.short /\ l.short > 0
  BY LabelIsWhole
<1>6. TextOf(short, l.id, "whole") = {}
  BY LabelSays
<1>7. tale.label = l.id /\ tale.shown = (short # s)
  OBVIOUS
<1> HIDE DEF whole, short, tale, r
<1>8. CASE r = whole /\ whole # s
  <2>1. {d.shown : d \in ToldOf(r, l.id)} = {}
    BY <1>4, <1>8
  <2> QED
    BY <1>3, <1>8, <2>1 DEF Fair, r
<1>9. CASE r = s /\ l.short = 0 /\ ~l.place
  <2>1. {d.shown : d \in ToldOf(r, l.id)} = {}
    BY <1>9
  <2> QED
    BY <1>2, <1>9, <2>1 DEF Fair, r
<1>10. CASE r.text = short.text /\ r.dropped = s.dropped \union {tale}
  <2>1. \A form : TextOf(r, l.id, form) = TextOf(short, l.id, form)
    BY <1>10 DEF TextOf
  <2>2. ToldOf(r, l.id) = {tale}
    BY <1>7, <1>10 DEF ToldOf
  <2>3. {d.shown : d \in ToldOf(r, l.id)} = {short # s}
    BY <1>7, <2>2
  <2>4. Cardinality(TextOf(r, l.id, "whole")) = 0
    BY <1>2, <1>6, <2>1
  <2>5. CASE short # s
    <3>1. {d.shown : d \in ToldOf(r, l.id)} = {TRUE}
      BY <2>3, <2>5
    <3> QED
      BY <1>5, <2>1, <2>4, <2>5, <3>1 DEF Fair, r
  <2>6. CASE short = s
    <3>1. {d.shown : d \in ToldOf(r, l.id)} = {FALSE}
      BY <2>3, <2>6
    <3>2. Cardinality(TextOf(r, l.id, "short")) = 0
      BY <1>2, <2>1, <2>6
    <3> QED
      BY <2>4, <3>1, <3>2 DEF Fair, r
  <2> QED
    BY <2>5, <2>6
<1> QED
  BY <1>1, <1>8, <1>9, <1>10

\* An outline's digits are in free cells.
LEMMA DigitsAreFree ==
    ASSUME NEW in, NEW s, NEW outline, outline \in Seq(Range(outline))
    PROVE  DigitCells(in, s, outline) \subseteq Screen \ Occupied(s)
<1> DEFINE bottom == IF in.footer > 0 THEN FrameRows - 3 ELSE FrameRows - 2
           frees == {k \in DOMAIN outline : outline[k] \in Screen \ Occupied(s) /\ outline[k][2] \in 1..bottom}
           strided == {k \in frees : (outline[k][1] + 2 * outline[k][2]) % DigitStride = 0}
           cells == IF strided = {} /\ frees # {} THEN {Min(frees)} ELSE strided
<1>1. frees \subseteq Nat /\ strided \subseteq frees
  OBVIOUS
<1>2. \A k \in frees : outline[k] \in Screen \ Occupied(s)
  OBVIOUS
<1>3. DigitCells(in, s, outline) = {outline[k] : k \in cells}
  BY DEF DigitCells
<1> HIDE DEF frees, strided
<1>4. cells \subseteq frees
  BY <1>1, LeastOf
<1> QED
  BY <1>2, <1>3, <1>4

\* Room held or boxed is no text and no tale.
LEMMA RoomIs ==
    ASSUME NEW s, Sheet(s), NEW more
    PROVE  /\ LET r == [s EXCEPT !.held = @ \union more]
              IN  Sheet(r) /\ r.text = s.text /\ r.dropped = s.dropped
           /\ LET r == [s EXCEPT !.boxes = @ \union more]
              IN  Sheet(r) /\ r.text = s.text /\ r.dropped = s.dropped
<1> DEFINE r == [s EXCEPT !.held = @ \union more]
           q == [s EXCEPT !.boxes = @ \union more]
<1>1. r = [text |-> s.text, boxes |-> s.boxes, held |-> s.held \union more, dropped |-> s.dropped]
  BY DEF Sheet
<1>2. q = [text |-> s.text, boxes |-> s.boxes \union more, held |-> s.held, dropped |-> s.dropped]
  BY DEF Sheet
<1> HIDE DEF r, q
<1>3. Sheet(r) /\ Sheet(q)
  BY <1>1, <1>2 DEF Sheet
<1> QED
  BY <1>1, <1>2, <1>3 DEF r, q

\* Text in another form, and no tale, says nothing of a label.
LEMMA OtherForms ==
    ASSUME NEW s, NEW r, NEW cells, NEW who, r.text = s.text \union Texts(cells, who),
           r.dropped = s.dropped, who[2] \notin Forms, NEW id
    PROVE  Silent(s, r, id)
<1>1. ASSUME NEW form \in Forms PROVE TextOf(r, id, form) = TextOf(s, id, form)
  <2> DEFINE whose == <<id, form>>
  <2>1. whose # who
    <3>1. whose[2] = form
      OBVIOUS
    <3> QED
      BY <3>1
  <2> HIDE DEF whose
  <2>2. {t \in r.text : t.by = whose} = {t \in s.text : t.by = whose}
    BY <2>1, TextAdded
  <2> QED
    BY <2>2 DEF TextOf, whose
<1> QED
  BY <1>1 DEF Silent, ToldOf

\* A claim that may speak of a label.
Speaks(c, id) == \/ c.kind \in {"place", "alert"} /\ c.by.label.id = id
                 \/ c.kind = "word" /\ c.by.id = id

ClaimKinds == {"furniture", "glyph", "place", "alert", "digits", "spare", "hold", "name", "word", "band"}

IsClaim(c) == c.kind \in ClaimKinds /\ (c.kind = "digits" => c.by.outline \in Seq(Range(c.by.outline)))

LEMMA LabelSilent ==
    ASSUME NEW s, Sheet(s), NEW l, NEW form, form \notin Forms, NEW width, NEW id
    PROVE  Sheet(LabelAt(s, l, form, width)) /\ Silent(s, LabelAt(s, l, form, width), id)
<1>1. Sheet(LabelAt(s, l, form, width))
  BY LabelTells
<1>2. ASSUME NEW other \in Forms
      PROVE  /\ TextOf(LabelAt(s, l, form, width), id, other) = TextOf(s, id, other)
             /\ ToldOf(LabelAt(s, l, form, width), id) = ToldOf(s, id)
  <2>1. <<id, other>> # <<l.id, form>>
    BY <1>2
  <2> QED
    BY <2>1, LabelSays
<1>3. "whole" \in Forms
  BY DEF Forms
<1> HIDE DEF Forms
<1> QED
  BY <1>1, <1>2, <1>3 DEF Silent

LEMMA OthersSayNothing ==
    ASSUME NEW in, NEW s, Sheet(s), NEW c, IsClaim(c)
    PROVE  LET r == Claimed(in, s, c)
           IN  Sheet(r) /\ \A id : ~Speaks(c, id) => Silent(s, r, id)
<1> DEFINE r == Claimed(in, s, c)
<1> SUFFICES ASSUME NEW id PROVE Sheet(r) /\ (~Speaks(c, id) => Silent(s, r, id))
  OBVIOUS
<1>0. Silent(s, s, id)
  BY DEF Silent
<1>1. CASE ~Asks(in, c)
  BY <1>0, <1>1 DEF Claimed
<1>2. CASE Asks(in, c) /\ c.kind = "furniture"
  <2> DEFINE who == <<c.by[4], "furniture">>
             col == c.by[1]
             row == c.by[2]
             width == c.by[3]
             new == Texts(Run(col, row, width), who)
             w == Write(s, col, row, width, who)
  <2>1. r = w
    BY <1>2 DEF Claimed
  <2>2. who[2] \notin Forms
    BY DEF Forms
  <2> HIDE DEF who, col, row, width
  <2>3. Sheet(w) /\ w.dropped = s.dropped /\ (w.text = s.text \/ w.text = s.text \union new)
    <3>1. CASE CanWrite(s, col, row, width)
      BY <3>1, WriteIs
    <3>2. CASE ~CanWrite(s, col, row, width)
      BY <3>2 DEF Write
    <3> QED
      BY <3>1, <3>2
  <2> HIDE DEF w, r
  <2>4. Silent(s, w, id)
    <3>1. CASE w.text = s.text
      BY <2>3, <3>1 DEF Silent, TextOf, ToldOf
    <3>2. CASE w.text = s.text \union new
      BY <2>2, <2>3, <3>2, OtherForms
    <3> QED
      BY <2>3, <3>1, <3>2
  <2> QED
    BY <2>1, <2>3, <2>4
<1>3. CASE Asks(in, c) /\ c.kind = "glyph"
  <2>1. r = LabelAt(s, [c.by.label EXCEPT !.anchors = <<c.by.at>>], "glyph", c.by.glyph)
    BY <1>3 DEF Claimed, Glyph
  <2>2. "glyph" \notin Forms
    BY DEF Forms
  <2> QED
    BY <2>1, <2>2, LabelSilent
<1>4. CASE Asks(in, c) /\ c.kind \in {"place", "alert"}
  <2> DEFINE l == c.by.label
  <2>1. r = PlaceOrShorten(s, l) /\ (~Speaks(c, id) => id # l.id)
    BY <1>4 DEF Claimed, Speaks
  <2> HIDE DEF l, r
  <2>2. Sheet(PlaceOrShorten(s, l)) /\ (id # l.id => Silent(s, PlaceOrShorten(s, l), id))
    BY PlacingIs, PlacingOthers
  <2> QED
    BY <2>1, <2>2
<1>5. CASE Asks(in, c) /\ c.kind = "digits"
  <2> DEFINE cells == DigitCells(in, s, c.by.outline)
             who == <<c.by.label.id, "digit">>
  <2>1. r = [s EXCEPT !.text = @ \union Texts(cells, who)]
    BY <1>5 DEF Claimed, WriteDigits, Texts
  <2>2. cells \subseteq Screen /\ cells \cap Occupied(s) = {}
    BY <1>5, DigitsAreFree DEF IsClaim
  <2>3. who[2] \notin Forms
    BY DEF Forms
  <2> HIDE DEF cells, who, r
  <2>4. r = [text |-> s.text \union Texts(cells, who), boxes |-> s.boxes, held |-> s.held, dropped |-> s.dropped]
    BY <2>1 DEF Sheet
  <2>5. Sheet(r)
    BY <2>2, <2>4, TextsAdd
  <2>6. Silent(s, r, id)
    BY <2>3, <2>4, OtherForms
  <2> QED
    BY <2>5, <2>6
<1>6. CASE Asks(in, c) /\ c.kind = "spare"
  <2> DEFINE more == DigitCells(in, s, c.by.outline)
  <2>1. r = [s EXCEPT !.held = @ \union more]
    BY <1>6 DEF Claimed, HoldDigits
  <2> HIDE DEF more, r
  <2>2. Sheet(r) /\ r.text = s.text /\ r.dropped = s.dropped
    BY <2>1, RoomIs
  <2> QED
    BY <2>2 DEF Silent, TextOf, ToldOf
<1>7. CASE Asks(in, c) /\ c.kind = "hold"
  <2>1. r = Hold(s, c.by.label)
    BY <1>7 DEF Claimed
  <2>2. r = s \/ \E more : r = [s EXCEPT !.boxes = @ \union more]
    BY <2>1 DEF Hold
  <2> HIDE DEF r
  <2>3. Sheet(r) /\ r.text = s.text /\ r.dropped = s.dropped
    <3>1. CASE r = s
      BY <3>1
    <3>2. CASE r # s
      <4>1. PICK more : r = [s EXCEPT !.boxes = @ \union more]
        BY <2>2, <3>2
      <4> QED
        BY <4>1, RoomIs
    <3> QED
      BY <3>1, <3>2
  <2> QED
    BY <2>3 DEF Silent, TextOf, ToldOf
<1>8. CASE Asks(in, c) /\ c.kind = "name"
  <2>1. r = s \/ r = LabelAt(s, c.by, "name", c.by.width)
    BY <1>8 DEF Claimed, Budgeted
  <2>2. "name" \notin Forms
    BY DEF Forms
  <2> QED
    BY <1>0, <2>1, <2>2, LabelSilent
<1>9. CASE Asks(in, c) /\ c.kind = "word"
  <2>1. r = PlaceOrShorten(s, c.by) /\ (~Speaks(c, id) => id # c.by.id)
    BY <1>9 DEF Claimed, Speaks
  <2>2. Sheet(PlaceOrShorten(s, c.by)) /\ (id # c.by.id => Silent(s, PlaceOrShorten(s, c.by), id))
    BY PlacingIs, PlacingOthers
  <2> QED
    BY <2>1, <2>2
<1>10. CASE Asks(in, c) /\ c.kind = "band"
  <2>1. r = LabelAt(s, c.by, "band", c.by.width)
    BY <1>10 DEF Claimed
  <2>2. "band" \notin Forms
    BY DEF Forms
  <2> QED
    BY <2>1, <2>2, LabelSilent
<1> QED
  BY <1>1, <1>2, <1>3, <1>4, <1>5, <1>6, <1>7, <1>8, <1>9, <1>10 DEF IsClaim, ClaimKinds

-----------------------------------------------------------------------------
(* The claims of a frame, one after the other.                             *)

IsLine(s) == s \in Seq(Range(s))

LEMMA LineIs ==
    ASSUME NEW s, NEW n \in Nat, s = [i \in 1..n |-> s[i]]
    PROVE  IsLine(s) /\ DOMAIN s = 1..n
<1>1. DOMAIN s = 1..n
  OBVIOUS
<1>2. \A i \in 1..n : s[i] \in Range(s)
  BY <1>1 DEF Range
<1>3. s \in [1..n -> Range(s)]
  BY <1>2
<1>4. s \in Seq(Range(s))
  BY <1>3
<1> QED
  BY <1>1, <1>4 DEF IsLine

LEMMA LineHas ==
    ASSUME NEW s, IsLine(s)
    PROVE  /\ Len(s) \in Nat /\ DOMAIN s = 1..Len(s) /\ s = [i \in 1..Len(s) |-> s[i]]
           /\ \A i \in 1..Len(s) : s[i] \in Range(s)
           /\ \A x \in Range(s) : \E i \in 1..Len(s) : x = s[i]
<1>1. Len(s) \in Nat /\ DOMAIN s = 1..Len(s) /\ s = [i \in 1..Len(s) |-> s[i]]
  BY DEF IsLine
<1> QED
  BY <1>1 DEF Range

\* One line after another.
LEMMA LinesJoin ==
    ASSUME NEW s, IsLine(s), NEW t, IsLine(t)
    PROVE  /\ IsLine(s \o t) /\ Len(s \o t) = Len(s) + Len(t)
           /\ \A i \in 1..Len(s) : (s \o t)[i] = s[i]
           /\ \A i \in 1..Len(t) : (s \o t)[Len(s) + i] = t[i]
           /\ Range(s \o t) = Range(s) \union Range(t)
<1> DEFINE all == Range(s) \union Range(t)
           r == s \o t
<1>1. s \in Seq(all) /\ t \in Seq(all)
  BY LineHas
<1> HIDE DEF all
<1>2. Len(s) \in Nat /\ Len(t) \in Nat
  BY LineHas
<1>3. /\ r \in Seq(all) /\ Len(r) = Len(s) + Len(t)
      /\ \A i \in 1..Len(r) : r[i] = IF i <= Len(s) THEN s[i] ELSE t[i - Len(s)]
  BY <1>1
<1> HIDE DEF r
<1>4. DOMAIN r = 1..(Len(s) + Len(t)) /\ r = [i \in 1..(Len(s) + Len(t)) |-> r[i]]
  BY <1>3
<1>5. IsLine(r)
  <2>1. Len(s) + Len(t) \in Nat
    BY <1>2
  <2> QED
    BY <1>4, <2>1, LineIs
<1>6. \A i \in 1..Len(s) : r[i] = s[i]
  BY <1>2, <1>3
<1>7. \A i \in 1..Len(t) : r[Len(s) + i] = t[i]
  <2> TAKE i \in 1..Len(t)
  <2>1. Len(s) + i \in 1..Len(r) /\ ~(Len(s) + i <= Len(s)) /\ (Len(s) + i) - Len(s) = i
    BY <1>2, <1>3
  <2> QED
    BY <1>3, <2>1
<1>8. \A x \in Range(r) : x \in all
  <2> TAKE x \in Range(r)
  <2>1. PICK i \in 1..Len(r) : x = r[i]
    BY <1>3, <1>4 DEF Range
  <2> QED
    BY <1>3, <2>1
<1>9. \A x \in all : x \in Range(r)
  <2>1. \A i \in 1..Len(s) : i \in DOMAIN r
    BY <1>2, <1>4
  <2>2. \A i \in 1..Len(t) : Len(s) + i \in DOMAIN r
    BY <1>2, <1>4
  <2>3. \A x \in Range(s) : \E i \in 1..Len(s) : x = s[i]
    BY LineHas
  <2>4. \A x \in Range(t) : \E i \in 1..Len(t) : x = t[i]
    BY LineHas
  <2>5. \A x \in Range(s) : x \in Range(r)
    BY <1>6, <2>1, <2>3 DEF Range
  <2>6. \A x \in Range(t) : x \in Range(r)
    <3> TAKE x \in Range(t)
    <3>1. PICK i \in 1..Len(t) : x = t[i]
      BY <2>4
    <3>2. x = r[Len(s) + i] /\ Len(s) + i \in DOMAIN r
      BY <1>7, <2>2, <3>1
    <3> QED
      BY <3>2 DEF Range
  <2> QED
    BY <2>5, <2>6 DEF all
<1>10. Range(r) = all
  BY <1>8, <1>9
<1> QED
  BY <1>3, <1>5, <1>6, <1>7, <1>10 DEF r, all

\* Claims of some kinds, those that speak of a label once each.
OfKinds(s, kinds) == \A c \in Range(s) : c.kind \in kinds
SpeaksOnce(s) ==
  \A i, j \in 1..Len(s) : s[i] = s[j] /\ s[i].kind \in {"place", "alert", "word"} => i = j
Lined(s, kinds) == IsLine(s) /\ OfKinds(s, kinds) /\ SpeaksOnce(s)

LEMMA LinedJoin ==
    ASSUME NEW s, NEW kinds, Lined(s, kinds), NEW t, NEW others, Lined(t, others), kinds \cap others = {}
    PROVE  /\ IsLine(s \o t) /\ OfKinds(s \o t, kinds \union others) /\ SpeaksOnce(s \o t)
           /\ Range(s \o t) = Range(s) \union Range(t)
<1> DEFINE r == s \o t
           n == Len(s)
<1>1. IsLine(s) /\ IsLine(t)
  BY DEF Lined
<1>2. /\ IsLine(r) /\ Len(r) = n + Len(t)
      /\ \A i \in 1..n : r[i] = s[i]
      /\ \A i \in 1..Len(t) : r[n + i] = t[i]
      /\ Range(r) = Range(s) \union Range(t)
  BY <1>1, LinesJoin
<1>3. n \in Nat /\ Len(t) \in Nat
  BY <1>1, LineHas
<1>4. (\A i \in 1..n : s[i] \in Range(s)) /\ (\A i \in 1..Len(t) : t[i] \in Range(t))
  BY <1>1, LineHas
<1>5. (\A c \in Range(s) : c.kind \in kinds) /\ (\A c \in Range(t) : c.kind \in others)
  BY DEF Lined, OfKinds
<1> HIDE DEF r, n
<1>6. \A i \in 1..Len(r) : i \in 1..n \/ (i - n \in 1..Len(t) /\ i = n + (i - n))
  BY <1>2, <1>3
<1>7. ASSUME NEW i \in 1..Len(r), NEW j \in 1..Len(r), r[i] = r[j], r[i].kind \in {"place", "alert", "word"}
      PROVE  i = j
  <2>1. CASE i \in 1..n /\ j \in 1..n
    BY <1>2, <1>7, <2>1 DEF Lined, SpeaksOnce, n
  <2>2. CASE i \notin 1..n /\ j \notin 1..n
    <3>1. i - n \in 1..Len(t) /\ j - n \in 1..Len(t) /\ r[i] = t[i - n] /\ r[j] = t[j - n]
      BY <1>2, <1>6, <2>2
    <3>2. i - n = j - n
      BY <1>7, <3>1 DEF Lined, SpeaksOnce
    <3> QED
      BY <1>3, <3>2
  <2>3. CASE (i \in 1..n) # (j \in 1..n)
    <3>1. \A k \in 1..Len(r) : IF k \in 1..n THEN r[k].kind \in kinds ELSE r[k].kind \in others
      BY <1>2, <1>4, <1>5, <1>6
    <3> QED
      BY <1>7, <2>3, <3>1
  <2> QED
    BY <2>1, <2>2, <2>3
<1>8. \A c \in Range(r) : c.kind \in kinds \union others
  BY <1>2, <1>5
<1>9. IsLine(r) /\ OfKinds(r, kinds \union others) /\ SpeaksOnce(r)
  BY <1>2, <1>7, <1>8 DEF OfKinds, SpeaksOnce
<1> QED
  BY <1>2, <1>9 DEF r

AsClaims(kind, asking) == [k \in DOMAIN asking |-> [kind |-> kind, by |-> asking[k]]]

LEMMA LinedAs ==
    ASSUME NEW asking, IsLine(asking), NEW kind,
           kind \in {"place", "alert", "word"} => \A i, j \in DOMAIN asking : asking[i] = asking[j] => i = j
    PROVE  /\ Lined(AsClaims(kind, asking), {kind})
           /\ Range(AsClaims(kind, asking)) = {[kind |-> kind, by |-> x] : x \in Range(asking)}
<1> DEFINE r == AsClaims(kind, asking)
           n == Len(asking)
<1>1. n \in Nat /\ DOMAIN asking = 1..n
  BY LineHas
<1> HIDE DEF n
<1>2. r = [k \in 1..n |-> [kind |-> kind, by |-> asking[k]]]
  BY <1>1 DEF AsClaims
<1> HIDE DEF r
<1>3. \A k \in 1..n : r[k] = [kind |-> kind, by |-> asking[k]]
  BY <1>2
<1>4. IsLine(r) /\ DOMAIN r = 1..n
  <2>1. r = [k \in 1..n |-> r[k]]
    BY <1>2
  <2> QED
    BY <1>1, <2>1, LineIs
<1>5. Len(r) = n
  <2>1. Len(r) \in Nat /\ 1..Len(r) = 1..n
    BY <1>4, LineHas
  <2> QED
    BY <1>1, <2>1
<1>6. Range(r) = {[kind |-> kind, by |-> x] : x \in Range(asking)}
  BY <1>1, <1>3, <1>4 DEF Range
<1>7. ASSUME NEW k \in 1..n PROVE r[k].kind = kind /\ r[k].by = asking[k]
  <2>1. r[k] = [kind |-> kind, by |-> asking[k]]
    BY <1>3
  <2> QED
    BY <2>1
<1>8. Lined(r, {kind})
  <2>1. \A c \in Range(r) : c.kind \in {kind}
    BY <1>6
  <2>2. \A i, j \in 1..n : r[i] = r[j] /\ r[i].kind \in {"place", "alert", "word"} => i = j
    BY <1>1, <1>7
  <2> QED
    BY <1>4, <1>5, <2>1, <2>2 DEF Lined, OfKinds, SpeaksOnce
<1> QED
  BY <1>6, <1>8 DEF r

-----------------------------------------------------------------------------
(* The tiles in one order, and their names.                                *)

IsPlace(spot) == spot \in [1..4 -> Int]

LEMMA TileBeforeIs ==
    ASSUME NEW a, NEW b, IsPlace(a.at), IsPlace(b.at)
    PROVE  TileBefore(a, b) <=>
              \/ a.at[1] < b.at[1]
              \/ a.at[1] = b.at[1] /\ a.at[2] < b.at[2]
              \/ a.at[1] = b.at[1] /\ a.at[2] = b.at[2] /\ a.at[3] < b.at[3]
              \/ a.at[1] = b.at[1] /\ a.at[2] = b.at[2] /\ a.at[3] = b.at[3] /\ a.at[4] < b.at[4]
<1> DEFINE Same(k) == \A j \in 1..(k - 1) : a.at[j] = b.at[j]
<1>1. 1..4 = {1, 2, 3, 4}
  OBVIOUS
<1>2. /\ 1..(1 - 1) = {} /\ 1..(2 - 1) = {1} /\ 1..(3 - 1) = {1, 2} /\ 1..(4 - 1) = {1, 2, 3}
  OBVIOUS
<1>3. /\ Same(1) /\ (Same(2) <=> a.at[1] = b.at[1]) /\ (Same(3) <=> a.at[1] = b.at[1] /\ a.at[2] = b.at[2])
      /\ (Same(4) <=> a.at[1] = b.at[1] /\ a.at[2] = b.at[2] /\ a.at[3] = b.at[3])
  BY <1>2
<1>4. TileBefore(a, b) <=> \E k \in {1, 2, 3, 4} : a.at[k] < b.at[k] /\ Same(k)
  BY <1>1 DEF TileBefore
<1> HIDE DEF Same
<1> QED
  BY <1>3, <1>4

LEMMA InOrderIs ==
    ASSUME NEW S, IsFiniteSet(S), \A t \in S : IsPlace(t.at), \A t, u \in S : t.at = u.at => t = u
    PROVE  /\ Cardinality(S) \in Nat /\ DOMAIN InOrder(S) = 1..Cardinality(S)
           /\ \A k \in 1..Cardinality(S) : InOrder(S)[k] \in S
<1> DEFINE before == {p \in S \X S : TileBefore(p[1], p[2])}
<1>1. \A x, y \in S : <<x, y>> \in before <=> TileBefore(x, y)
  OBVIOUS
<1>2. \A x \in S : ~TileBefore(x, x)
  BY TileBeforeIs DEF IsPlace
<1>3. ASSUME NEW x \in S, NEW y \in S, x # y PROVE TileBefore(x, y) \/ TileBefore(y, x)
  <2>1. x.at \in [1..4 -> Int] /\ y.at \in [1..4 -> Int] /\ x.at # y.at
    BY <1>3 DEF IsPlace
  <2>2. \E k \in 1..4 : x.at[k] # y.at[k]
    BY <2>1
  <2>3. x.at[1] # y.at[1] \/ x.at[2] # y.at[2] \/ x.at[3] # y.at[3] \/ x.at[4] # y.at[4]
    BY <2>2
  <2>4. \A k \in 1..4 : x.at[k] \in Int /\ y.at[k] \in Int
    BY <2>1
  <2> QED
    BY <2>1, <2>3, <2>4, TileBeforeIs DEF IsPlace
<1>4. ASSUME NEW x \in S, NEW y \in S, NEW z \in S, TileBefore(x, y), TileBefore(y, z) PROVE TileBefore(x, z)
  <2>1. \A k \in 1..4 : x.at[k] \in Int /\ y.at[k] \in Int /\ z.at[k] \in Int
    BY DEF IsPlace
  <2> QED
    BY <1>4, <2>1, TileBeforeIs
<1> HIDE DEF before
<1>5. \A k \in 1..Cardinality(S) : \E x \in S : Cardinality({y \in S : <<y, x>> \in before}) = k - 1
  BY <1>1, <1>2, <1>3, <1>4, PlacesAreTaken
<1>6. \A x \in S : {y \in S : <<y, x>> \in before} = {y \in S : TileBefore(y, x)}
  BY <1>1
<1>7. InOrder(S) = [k \in 1..Cardinality(S) |->
                       CHOOSE x \in S : Cardinality({y \in S : TileBefore(y, x)}) = k - 1]
  BY DEF InOrder, InTurn
<1>8. ASSUME NEW k \in 1..Cardinality(S) PROVE InOrder(S)[k] \in S
  <2>1. \E x \in S : Cardinality({y \in S : TileBefore(y, x)}) = k - 1
    BY <1>5, <1>6
  <2>2. InOrder(S)[k] = CHOOSE x \in S : Cardinality({y \in S : TileBefore(y, x)}) = k - 1
    BY <1>7
  <2> QED
    BY <2>1, <2>2
<1> QED
  BY <1>7, <1>8, FS_CardinalityType

LEMMA NamesAreALine ==
    ASSUME NEW in, NEW tiles, AreTiles(tiles), in.tiles = InOrder(Range(tiles))
    PROVE  IsLine(Names(in))
<1> DEFINE S == Range(tiles)
           parts == {{i} \X DOMAIN in.tiles[i].names : i \in DOMAIN in.tiles}
<1>1. IsFiniteSet(S)
  <2> DEFINE f == [i \in 1..Len(tiles) |-> tiles[i]]
  <2>1. DOMAIN tiles = 1..Len(tiles) /\ Len(tiles) \in Nat
    BY DEF AreTiles
  <2>2. f \in Surjection(1..Len(tiles), S)
    BY <2>1 DEF Surjection, Range
  <2>3. IsFiniteSet(1..Len(tiles))
    BY <2>1, FS_Interval
  <2> HIDE DEF f
  <2> QED
    BY <2>2, <2>3, FS_Surjection
<1>2. (\A t \in S : IsPlace(t.at) /\ t.names \in Seq(Range(t.names))) /\ \A t, u \in S : t.at = u.at => t = u
  BY DEF AreTiles, IsPlace
<1> HIDE DEF S
<1>3. /\ Cardinality(S) \in Nat /\ DOMAIN in.tiles = 1..Cardinality(S)
      /\ \A i \in 1..Cardinality(S) : in.tiles[i] \in S
  BY <1>1, <1>2, InOrderIs DEF S
<1>4. \A p \in parts : IsFiniteSet(p)
  <2> TAKE p \in parts
  <2>1. PICK i \in DOMAIN in.tiles : p = {i} \X DOMAIN in.tiles[i].names
    OBVIOUS
  <2> DEFINE names == in.tiles[i].names
  <2>2. names \in Seq(Range(names))
    BY <1>2, <1>3
  <2>3. DOMAIN names = 1..Len(names) /\ Len(names) \in Nat
    BY <2>2
  <2>4. IsFiniteSet(DOMAIN names) /\ IsFiniteSet({i})
    <3>1. IsFiniteSet(1..Len(names))
      BY <2>3, FS_Interval
    <3>2. IsFiniteSet({i})
      BY FS_Singleton
    <3> HIDE DEF names
    <3> QED
      BY <2>3, <3>1, <3>2
  <2> QED
    BY <2>1, <2>4, FS_Product
<1>5. IsFiniteSet(parts)
  <2> DEFINE f == [i \in DOMAIN in.tiles |-> {i} \X DOMAIN in.tiles[i].names]
  <2>1. f \in Surjection(DOMAIN in.tiles, parts)
    BY DEF Surjection
  <2>2. IsFiniteSet(DOMAIN in.tiles)
    BY <1>3, FS_Interval
  <2> HIDE DEF f, parts
  <2> QED
    BY <2>1, <2>2, FS_Surjection
<1>6. IsFiniteSet(UNION parts)
  <2> HIDE DEF parts
  <2> QED
    BY <1>4, <1>5, FS_UNION
<1>7. Cardinality(Named(in)) \in Nat
  <2>1. Named(in) \subseteq UNION parts
    BY DEF Named
  <2> HIDE DEF parts
  <2> QED
    BY <1>6, <2>1, FS_Subset, FS_CardinalityType
<1> DEFINE names == Names(in)
<1>8. names = [k \in 1..Cardinality(Named(in)) |-> names[k]]
  BY DEF Names
<1> HIDE DEF names
<1> QED
  BY <1>7, <1>8, LineIs DEF names

-----------------------------------------------------------------------------
(* What the contest comes to.                                              *)

\* An input whose claims are in lines, and whose labels have ids of their own.
IsAsking(in) ==
  /\ \A f \in Asking : IsAsked(f, in[f])
  /\ \A f, g \in Asking : f # g =>
        \A x \in Range(in[f]), y \in Range(in[g]) : LabelOf(f, x).id # LabelOf(g, y).id
  /\ IsLine(in.bands) /\ IsLine(Names(in))

LEMMA AskingIs ==
    ASSUME NEW in, IsAsking(in)
    PROVE  /\ IsAsked("alerts", in.alerts) /\ IsAsked("markers", in.markers) /\ IsAsked("words", in.words)
           /\ IsLine(in.alerts) /\ IsLine(in.markers) /\ IsLine(in.words)
BY DEF IsAsking, Asking, IsAsked, IsLine

\* Of one field, what has an id is one.
LEMMA IdsAreOwn ==
    ASSUME NEW f, NEW s, IsAsked(f, s)
    PROVE  /\ \A x, y \in Range(s) : LabelOf(f, x).id = LabelOf(f, y).id => x = y
           /\ \A i, j \in DOMAIN s : s[i] = s[j] => i = j
<1>1. \A i, j \in DOMAIN s : LabelOf(f, s[i]).id = LabelOf(f, s[j]).id => i = j
  BY DEF IsAsked
<1>2. ASSUME NEW x \in Range(s), NEW y \in Range(s), LabelOf(f, x).id = LabelOf(f, y).id PROVE x = y
  <2>1. PICK i \in DOMAIN s, j \in DOMAIN s : x = s[i] /\ y = s[j]
    BY DEF Range
  <2> QED
    BY <1>1, <1>2, <2>1
<1>3. ASSUME NEW i \in DOMAIN s, NEW j \in DOMAIN s, s[i] = s[j] PROVE i = j
  BY <1>1, <1>3
<1> QED
  BY <1>2, <1>3

ClaimsFor(kind, s) == {[kind |-> kind, by |-> x] : x \in Range(s)}

LEMMA ClaimsAreLined ==
    ASSUME NEW in, IsAsking(in)
    PROVE  /\ Lined(Claims(in), ClaimKinds)
           /\ \E rest : /\ \A c \in rest : c.kind \notin {"place", "alert", "digits", "word"}
                        /\ Range(Claims(in)) =
                             rest \union ClaimsFor("place", in.markers) \union ClaimsFor("alert", in.alerts)
                                  \union ClaimsFor("digits", in.alerts) \union ClaimsFor("word", in.words)
<1> DEFINE names == IF in.labels THEN Names(in) ELSE <<>>
           L1 == AsClaims("furniture", Furniture(in))
           L2 == AsClaims("glyph", in.markers)
           L3 == AsClaims("place", in.markers)
           L4 == AsClaims("alert", in.alerts)
           L5 == AsClaims("digits", in.alerts)
           L6 == AsClaims("spare", in.alerts)
           L7 == AsClaims("hold", in.alerts)
           L8 == AsClaims("name", names)
           L9 == AsClaims("word", in.words)
           L10 == AsClaims("band", in.bands)
<1>1. Claims(in) = L1 \o L2 \o L3 \o L4 \o L5 \o L6 \o L7 \o L8 \o L9 \o L10
  BY DEF Claims, AsClaims
<1>2. IsLine(Furniture(in))
  <2> DEFINE f == Furniture(in)
  <2>1. f = [i \in 1..6 |-> f[i]]
    BY DEF Furniture
  <2> HIDE DEF f
  <2> QED
    BY <2>1, LineIs DEF f
<1>3. IsLine(names) /\ IsLine(in.bands)
  <2>1. IsLine(<<>>)
    BY DEF IsLine
  <2> QED
    BY <2>1 DEF IsAsking
<1>4. IsLine(in.alerts) /\ IsLine(in.markers) /\ IsLine(in.words)
  BY AskingIs
<1>5. /\ \A i, j \in DOMAIN in.alerts : in.alerts[i] = in.alerts[j] => i = j
      /\ \A i, j \in DOMAIN in.markers : in.markers[i] = in.markers[j] => i = j
      /\ \A i, j \in DOMAIN in.words : in.words[i] = in.words[j] => i = j
  BY AskingIs, IdsAreOwn
<1> HIDE DEF names
<1>6. Lined(L1, {"furniture"}) /\ Range(L1) = ClaimsFor("furniture", Furniture(in))
  BY <1>2, LinedAs DEF ClaimsFor
<1>7. Lined(L2, {"glyph"}) /\ Range(L2) = ClaimsFor("glyph", in.markers)
  BY <1>4, LinedAs DEF ClaimsFor
<1>8. Lined(L3, {"place"}) /\ Range(L3) = ClaimsFor("place", in.markers)
  BY <1>4, <1>5, LinedAs DEF ClaimsFor
<1>9. Lined(L4, {"alert"}) /\ Range(L4) = ClaimsFor("alert", in.alerts)
  BY <1>4, <1>5, LinedAs, SMTT(30) DEF ClaimsFor
<1>10. /\ Lined(L5, {"digits"}) /\ Range(L5) = ClaimsFor("digits", in.alerts)
       /\ Lined(L6, {"spare"}) /\ Range(L6) = ClaimsFor("spare", in.alerts)
       /\ Lined(L7, {"hold"}) /\ Range(L7) = ClaimsFor("hold", in.alerts)
  <2>1. Lined(L5, {"digits"}) /\ Range(L5) = ClaimsFor("digits", in.alerts)
    BY <1>4, LinedAs DEF ClaimsFor
  <2>2. Lined(L6, {"spare"}) /\ Range(L6) = ClaimsFor("spare", in.alerts)
    BY <1>4, LinedAs DEF ClaimsFor
  <2>3. Lined(L7, {"hold"}) /\ Range(L7) = ClaimsFor("hold", in.alerts)
    BY <1>4, LinedAs DEF ClaimsFor
  <2> QED
    BY <2>1, <2>2, <2>3
<1>11. Lined(L8, {"name"}) /\ Range(L8) = ClaimsFor("name", names)
  BY <1>3, LinedAs DEF ClaimsFor
<1>12. Lined(L9, {"word"}) /\ Range(L9) = ClaimsFor("word", in.words)
  BY <1>4, <1>5, LinedAs DEF ClaimsFor
<1>13. Lined(L10, {"band"}) /\ Range(L10) = ClaimsFor("band", in.bands)
  BY <1>3, LinedAs DEF ClaimsFor
<1> HIDE DEF L1, L2, L3, L4, L5, L6, L7, L8, L9, L10
<1> DEFINE K2 == {"furniture", "glyph"}
           K3 == {"furniture", "glyph", "place"}
           K4 == {"furniture", "glyph", "place", "alert"}
           K5 == {"furniture", "glyph", "place", "alert", "digits"}
           K6 == {"furniture", "glyph", "place", "alert", "digits", "spare"}
           K7 == {"furniture", "glyph", "place", "alert", "digits", "spare", "hold"}
           K8 == {"furniture", "glyph", "place", "alert", "digits", "spare", "hold", "name"}
           K9 == {"furniture", "glyph", "place", "alert", "digits", "spare", "hold", "name", "word"}
           M2 == L1 \o L2
           M3 == M2 \o L3
           M4 == M3 \o L4
           M5 == M4 \o L5
           M6 == M5 \o L6
           M7 == M6 \o L7
           M8 == M7 \o L8
           M9 == M8 \o L9
           M10 == M9 \o L10
<1>14. Lined(M2, K2) /\ Range(M2) = Range(L1) \union Range(L2)
  <2>1. {"furniture"} \cap {"glyph"} = {} /\ {"furniture"} \union {"glyph"} = K2
    OBVIOUS
  <2> HIDE DEF K2, M2
  <2>2. Lined(L1, {"furniture"}) /\ Lined(L2, {"glyph"})
    BY <1>6, <1>7
  <2>3. /\ IsLine(L1 \o L2) /\ OfKinds(L1 \o L2, {"furniture"} \union {"glyph"}) /\ SpeaksOnce(L1 \o L2)
        /\ Range(L1 \o L2) = Range(L1) \union Range(L2)
    BY <2>1, <2>2, LinedJoin, ZenonT(60)
  <2> QED
    BY <2>1, <2>3 DEF Lined, M2
<1> HIDE DEF M2
<1>15. Lined(M3, K3) /\ Range(M3) = Range(M2) \union Range(L3)
  <2>1. K2 \cap {"place"} = {} /\ K2 \union {"place"} = K3
    OBVIOUS
  <2> HIDE DEF K3, K2, M3
  <2>2. Lined(M2, K2) /\ Lined(L3, {"place"})
    BY <1>14, <1>8
  <2>3. /\ IsLine(M2 \o L3) /\ OfKinds(M2 \o L3, K2 \union {"place"}) /\ SpeaksOnce(M2 \o L3)
        /\ Range(M2 \o L3) = Range(M2) \union Range(L3)
    BY <2>1, <2>2, LinedJoin, ZenonT(60)
  <2> QED
    BY <2>1, <2>3 DEF Lined, M3
<1> HIDE DEF M3
<1>16. Lined(M4, K4) /\ Range(M4) = Range(M3) \union Range(L4)
  <2>1. K3 \cap {"alert"} = {} /\ K3 \union {"alert"} = K4
    OBVIOUS
  <2> HIDE DEF K4, K3, M4
  <2>2. Lined(M3, K3) /\ Lined(L4, {"alert"})
    BY <1>15, <1>9
  <2>3. /\ IsLine(M3 \o L4) /\ OfKinds(M3 \o L4, K3 \union {"alert"}) /\ SpeaksOnce(M3 \o L4)
        /\ Range(M3 \o L4) = Range(M3) \union Range(L4)
    BY <2>1, <2>2, LinedJoin, ZenonT(60)
  <2> QED
    BY <2>1, <2>3 DEF Lined, M4
<1> HIDE DEF M4
<1>17. Lined(M5, K5) /\ Range(M5) = Range(M4) \union Range(L5)
  <2>1. K4 \cap {"digits"} = {} /\ K4 \union {"digits"} = K5
    OBVIOUS
  <2> HIDE DEF K5, K4, M5
  <2>2. Lined(M4, K4) /\ Lined(L5, {"digits"})
    BY <1>16, <1>10
  <2>3. /\ IsLine(M4 \o L5) /\ OfKinds(M4 \o L5, K4 \union {"digits"}) /\ SpeaksOnce(M4 \o L5)
        /\ Range(M4 \o L5) = Range(M4) \union Range(L5)
    BY <2>1, <2>2, LinedJoin, ZenonT(60)
  <2> QED
    BY <2>1, <2>3 DEF Lined, M5
<1> HIDE DEF M5
<1>18. Lined(M6, K6) /\ Range(M6) = Range(M5) \union Range(L6)
  <2>1. K5 \cap {"spare"} = {} /\ K5 \union {"spare"} = K6
    OBVIOUS
  <2> HIDE DEF K6, K5, M6
  <2>2. Lined(M5, K5) /\ Lined(L6, {"spare"})
    BY <1>17, <1>10
  <2>3. /\ IsLine(M5 \o L6) /\ OfKinds(M5 \o L6, K5 \union {"spare"}) /\ SpeaksOnce(M5 \o L6)
        /\ Range(M5 \o L6) = Range(M5) \union Range(L6)
    BY <2>1, <2>2, LinedJoin, ZenonT(60)
  <2> QED
    BY <2>1, <2>3 DEF Lined, M6
<1> HIDE DEF M6
<1>19. Lined(M7, K7) /\ Range(M7) = Range(M6) \union Range(L7)
  <2>1. K6 \cap {"hold"} = {} /\ K6 \union {"hold"} = K7
    OBVIOUS
  <2> HIDE DEF K7, K6, M7
  <2>2. Lined(M6, K6) /\ Lined(L7, {"hold"})
    BY <1>18, <1>10
  <2>3. /\ IsLine(M6 \o L7) /\ OfKinds(M6 \o L7, K6 \union {"hold"}) /\ SpeaksOnce(M6 \o L7)
        /\ Range(M6 \o L7) = Range(M6) \union Range(L7)
    BY <2>1, <2>2, LinedJoin, ZenonT(60)
  <2> QED
    BY <2>1, <2>3 DEF Lined, M7
<1> HIDE DEF M7
<1>20. Lined(M8, K8) /\ Range(M8) = Range(M7) \union Range(L8)
  <2>1. K7 \cap {"name"} = {} /\ K7 \union {"name"} = K8
    OBVIOUS
  <2> HIDE DEF K8, K7, M8
  <2>2. Lined(M7, K7) /\ Lined(L8, {"name"})
    BY <1>19, <1>11
  <2>3. /\ IsLine(M7 \o L8) /\ OfKinds(M7 \o L8, K7 \union {"name"}) /\ SpeaksOnce(M7 \o L8)
        /\ Range(M7 \o L8) = Range(M7) \union Range(L8)
    BY <2>1, <2>2, LinedJoin, ZenonT(60)
  <2> QED
    BY <2>1, <2>3 DEF Lined, M8
<1> HIDE DEF M8
<1>21. Lined(M9, K9) /\ Range(M9) = Range(M8) \union Range(L9)
  <2>1. K8 \cap {"word"} = {} /\ K8 \union {"word"} = K9
    OBVIOUS
  <2> HIDE DEF K9, K8, M9
  <2>2. Lined(M8, K8) /\ Lined(L9, {"word"})
    BY <1>20, <1>12
  <2>3. /\ IsLine(M8 \o L9) /\ OfKinds(M8 \o L9, K8 \union {"word"}) /\ SpeaksOnce(M8 \o L9)
        /\ Range(M8 \o L9) = Range(M8) \union Range(L9)
    BY <2>1, <2>2, LinedJoin, ZenonT(60)
  <2> QED
    BY <2>1, <2>3 DEF Lined, M9
<1> HIDE DEF M9
<1>22. Lined(M10, ClaimKinds) /\ Range(M10) = Range(M9) \union Range(L10)
  <2>1. K9 \cap {"band"} = {} /\ K9 \union {"band"} = ClaimKinds
    BY DEF ClaimKinds
  <2> HIDE DEF K9, M10
  <2>2. Lined(M9, K9) /\ Lined(L10, {"band"})
    BY <1>21, <1>13
  <2>3. /\ IsLine(M9 \o L10) /\ OfKinds(M9 \o L10, K9 \union {"band"}) /\ SpeaksOnce(M9 \o L10)
        /\ Range(M9 \o L10) = Range(M9) \union Range(L10)
    BY <2>1, <2>2, LinedJoin, ZenonT(60)
  <2> QED
    BY <2>1, <2>3 DEF Lined, M10
<1> HIDE DEF M10
<1>23. Claims(in) = M10
  BY <1>1 DEF M2, M3, M4, M5, M6, M7, M8, M9, M10
<1> DEFINE rest == ClaimsFor("furniture", Furniture(in)) \union ClaimsFor("glyph", in.markers)
                   \union ClaimsFor("spare", in.alerts) \union ClaimsFor("hold", in.alerts)
                   \union ClaimsFor("name", names) \union ClaimsFor("band", in.bands)
<1>24. \A c \in rest : c.kind \notin {"place", "alert", "digits", "word"}
  BY DEF ClaimsFor
<1> HIDE DEF rest
<1>25. Range(M10) = rest \union ClaimsFor("place", in.markers) \union ClaimsFor("alert", in.alerts)
                         \union ClaimsFor("digits", in.alerts) \union ClaimsFor("word", in.words)
  BY <1>6, <1>7, <1>8, <1>9, <1>10, <1>11, <1>12, <1>13, <1>14, <1>15, <1>16, <1>17, <1>18, <1>19, <1>20, <1>21, <1>22
     DEF rest
<1> QED
  BY <1>22, <1>23, <1>24, <1>25

\* A label asked for, with the claim that is its own.
IsOwn(in, kind, x) ==
  x \in Kept(in, kind) /\ ((kind = "place" /\ x \in Lit(in)) \/ (kind = "alert" /\ x \in Drawn(in)))

LEMMA ClaimsSpeak ==
    ASSUME NEW in, IsAsking(in), NEW kind, NEW x, IsOwn(in, kind, x)
    PROVE  \E p \in 1..Len(Claims(in)) :
              /\ Claims(in)[p] = [kind |-> kind, by |-> x]
              /\ \A i \in 1..Len(Claims(in)) : i # p => ~Speaks(Claims(in)[i], x.label.id)
<1> DEFINE claims == Claims(in)
           own == [kind |-> kind, by |-> x]
           places == ClaimsFor("place", in.markers)
           alerts == ClaimsFor("alert", in.alerts)
           digits == ClaimsFor("digits", in.alerts)
           words == ClaimsFor("word", in.words)
<1>1. Lined(claims, ClaimKinds)
  BY ClaimsAreLined
<1>2. PICK rest : /\ \A c \in rest : c.kind \notin {"place", "alert", "digits", "word"}
                  /\ Range(claims) = rest \union places \union alerts \union digits \union words
  BY ClaimsAreLined
<1>3. own \in places \union alerts
  BY DEF IsOwn, Lit, Drawn, ClaimsFor
<1>4. IsLine(claims) /\ SpeaksOnce(claims)
  BY <1>1 DEF Lined
<1>5. own \in Range(claims)
  BY <1>2, <1>3
<1>6. PICK p \in 1..Len(claims) : own = claims[p]
  BY <1>4, <1>5, LineHas
<1>7. IsAsked("alerts", in.alerts) /\ IsAsked("markers", in.markers)
  BY AskingIs
<1>8. /\ \A y, z \in Range(in.alerts) : y.label.id = z.label.id => y = z
      /\ \A y, z \in Range(in.markers) : y.label.id = z.label.id => y = z
  BY <1>7, IdsAreOwn DEF LabelOf
<1>9. /\ \A y \in Range(in.alerts), z \in Range(in.markers) : y.label.id # z.label.id
      /\ \A y \in Range(in.alerts), z \in Range(in.words) : y.label.id # z.id
      /\ \A y \in Range(in.markers), z \in Range(in.words) : y.label.id # z.id
  BY DEF IsAsking, Asking, LabelOf
<1>10. ASSUME NEW c \in Range(claims), Speaks(c, x.label.id) PROVE c = own
  <2>1. c.kind \in {"place", "alert", "word"}
    BY <1>10 DEF Speaks
  <2>2. c \in places \/ c \in alerts \/ c \in words
    <3>1. \A d \in digits : d.kind = "digits"
      BY DEF ClaimsFor
    <3> QED
      BY <1>2, <2>1, <3>1
  <2>3. CASE c \in places
    <3>1. PICK y \in Range(in.markers) : c = [kind |-> "place", by |-> y]
      BY <2>3 DEF ClaimsFor
    <3>2. c.kind = "place" /\ c.by = y
      BY <3>1
    <3>3. y.label.id = x.label.id
      BY <1>10, <3>2 DEF Speaks
    <3> QED
      BY <1>8, <1>9, <3>1, <3>3 DEF IsOwn, Lit, Drawn
  <2>4. CASE c \in alerts
    <3>1. PICK y \in Range(in.alerts) : c = [kind |-> "alert", by |-> y]
      BY <2>4 DEF ClaimsFor
    <3>2. c.kind = "alert" /\ c.by = y
      BY <3>1
    <3>3. y.label.id = x.label.id
      BY <1>10, <3>2 DEF Speaks
    <3> QED
      BY <1>8, <1>9, <3>1, <3>3 DEF IsOwn, Lit, Drawn
  <2>5. CASE c \in words
    <3>1. PICK y \in Range(in.words) : c = [kind |-> "word", by |-> y]
      BY <2>5 DEF ClaimsFor
    <3>2. c.kind = "word" /\ c.by = y
      BY <3>1
    <3>3. y.id = x.label.id
      BY <1>10, <3>2 DEF Speaks
    <3> QED
      BY <1>9, <3>3 DEF IsOwn, Lit, Drawn
  <2> QED
    BY <2>2, <2>3, <2>4, <2>5
<1>11. own.kind \in {"place", "alert", "word"}
  BY DEF IsOwn
<1> HIDE DEF own, claims
<1>12. ASSUME NEW i \in 1..Len(claims), Speaks(claims[i], x.label.id) PROVE i = p
  <2>1. claims[i] = own
    BY <1>4, <1>10, <1>12, LineHas
  <2> QED
    BY <1>4, <1>6, <1>11, <2>1 DEF SpeaksOnce
<1> QED
  BY <1>6, <1>12 DEF own, claims

LEMMA ClaimsAreClaims ==
    ASSUME NEW in, IsAsking(in), NEW i \in 1..Len(Claims(in))
    PROVE  IsClaim(Claims(in)[i])
<1> DEFINE claims == Claims(in)
           c == claims[i]
<1>1. Lined(claims, ClaimKinds)
  BY ClaimsAreLined
<1>2. PICK rest : /\ \A d \in rest : d.kind \notin {"place", "alert", "digits", "word"}
                  /\ Range(claims) = rest \union ClaimsFor("place", in.markers) \union ClaimsFor("alert", in.alerts)
                                          \union ClaimsFor("digits", in.alerts) \union ClaimsFor("word", in.words)
  BY ClaimsAreLined
<1>3. c \in Range(claims) /\ c.kind \in ClaimKinds
  BY <1>1, LineHas DEF Lined, OfKinds
<1>4. ASSUME c.kind = "digits" PROVE c.by.outline \in Seq(Range(c.by.outline))
  <2>1. c \in ClaimsFor("digits", in.alerts)
    <3>1. \A d \in ClaimsFor("place", in.markers) \union ClaimsFor("alert", in.alerts) \union ClaimsFor("word", in.words) :
             d.kind # "digits"
      BY DEF ClaimsFor
    <3> QED
      BY <1>2, <1>3, <1>4, <3>1
  <2>2. c.by \in Range(in.alerts)
    BY <2>1 DEF ClaimsFor
  <2> QED
    BY <2>2, AskingIs DEF IsAsked
<1> QED
  BY <1>3, <1>4 DEF IsClaim

Unsaid(s, id) == TextOf(s, id, "whole") = {} /\ TextOf(s, id, "short") = {} /\ ToldOf(s, id) = {}

LEMMA SilenceKeeps ==
    ASSUME NEW s, NEW r, NEW l, Silent(s, r, l.id)
    PROVE  (Unsaid(s, l.id) => Unsaid(r, l.id)) /\ (Fair(s, l) => Fair(r, l))
BY DEF Silent, Forms, Unsaid, Fair

LEMMA FirstSheet == Sheet(NoSheet) /\ \A id : Unsaid(NoSheet, id)
<1>1. Sheet(NoSheet)
  BY DEF Sheet, NoSheet
<1>2. NoSheet.text = {} /\ NoSheet.dropped = {}
  BY DEF NoSheet
<1> QED
  BY <1>1, <1>2 DEF Unsaid, TextOf, ToldOf

\* Whatever claims what, the contest leaves a sheet.
LEMMA ContestIsASheet ==
    ASSUME NEW in, IsAsking(in)
    PROVE  \E f : LET n == Len(Claims(in))
                  IN  /\ n \in Nat /\ f[0] = NoSheet /\ f[n] = Composed(in)
                      /\ \A i \in 1..n : f[i] = Claimed(in, f[i - 1], Claims(in)[i])
                      /\ \A i \in 0..n : Sheet(f[i])
<1> DEFINE claims == Claims(in)
           n == Len(claims)
<1>1. n \in Nat /\ DOMAIN claims = 1..n
  BY ClaimsAreLined, LineHas DEF Lined
<1>2. PICK f : /\ f[0] = NoSheet /\ f[n] = Contest!FoldOf(in, NoSheet, claims)
               /\ \A i \in 1..n : f[i] = Claimed(in, f[i - 1], claims[i])
  <2>1. \E f : Contest!FoldPasses(f, in, NoSheet, claims, n)
    <3> HIDE DEF claims, n
    <3> QED
      BY <1>1, Contest!FoldSteps
  <2> QED
    BY <2>1, Zenon DEF Contest!FoldPasses
<1>3. f[n] = Composed(in)
  BY <1>2, ComposedIsAFold
<1> DEFINE H == {i \in 0..n : Sheet(f[i])}
<1>4. 0 \in H
  BY <1>1, <1>2, FirstSheet
<1>5. ASSUME NEW i \in 1..n, i - 1 \in H PROVE i \in H
  <2>1. IsClaim(claims[i])
    BY ClaimsAreClaims
  <2>2. Sheet(f[i - 1]) /\ f[i] = Claimed(in, f[i - 1], claims[i])
    BY <1>2, <1>5
  <2> HIDE DEF claims
  <2>3. Sheet(f[i])
    BY <2>1, <2>2, OthersSayNothing
  <2> QED
    BY <1>1, <2>3
<1>6. \A i \in 0..n : i \in H
  <2> HIDE DEF H, n
  <2> QED
    BY <1>1, <1>4, <1>5, OneByOne
<1> QED
  BY <1>1, <1>2, <1>3, <1>6

\* Every label asked for is fairly placed.
LEMMA ContestIsFair ==
    ASSUME NEW in, IsAsking(in), NEW kind, NEW x, IsOwn(in, kind, x),
           x.label.anchors \in Seq(Int \X Int), x.label.width \in Nat, x.label.short \in Nat
    PROVE  Fair(Composed(in), x.label)
<1> DEFINE claims == Claims(in)
           n == Len(claims)
           l == x.label
<1>1. PICK f : /\ n \in Nat /\ f[0] = NoSheet /\ f[n] = Composed(in)
               /\ \A i \in 1..n : f[i] = Claimed(in, f[i - 1], claims[i])
               /\ \A i \in 0..n : Sheet(f[i])
  BY ContestIsASheet
<1>2. PICK p \in 1..n : /\ claims[p] = [kind |-> kind, by |-> x]
                        /\ \A i \in 1..n : i # p => ~Speaks(claims[i], l.id)
  BY ClaimsSpeak
<1>3. ASSUME NEW i \in 1..n, i # p PROVE Silent(f[i - 1], f[i], l.id)
  <2>1. IsClaim(claims[i]) /\ Sheet(f[i - 1])
    BY <1>1, ClaimsAreClaims
  <2>2. f[i] = Claimed(in, f[i - 1], claims[i]) /\ ~Speaks(claims[i], l.id)
    BY <1>1, <1>2, <1>3
  <2> HIDE DEF claims, n, l
  <2> QED
    BY <2>1, <2>2, OthersSayNothing
<1>4. Unsaid(f[p - 1], l.id)
  <2> DEFINE H == {i \in 0..n : i < p => Unsaid(f[i], l.id)}
  <2>1. 0 \in H
    BY <1>1, FirstSheet
  <2>2. ASSUME NEW i \in 1..n, i - 1 \in H PROVE i \in H
    <3>1. CASE i < p
      <4>1. i # p /\ i - 1 < p /\ Unsaid(f[i - 1], l.id)
        BY <2>2, <3>1
      <4>2. Unsaid(f[i], l.id)
        BY <1>3, <4>1, SilenceKeeps
      <4> QED
        BY <4>2
    <3>2. CASE ~(i < p)
      BY <3>2
    <3> QED
      BY <3>1, <3>2
  <2>3. \A i \in 0..n : i \in H
    <3> HIDE DEF H, n
    <3> QED
      BY <1>1, <2>1, <2>2, OneByOne
  <2>4. p - 1 \in 0..n /\ p - 1 < p
    BY <1>1
  <2> QED
    BY <2>3, <2>4
<1>5. Fair(f[p], l)
  <2>1. f[p] = Claimed(in, f[p - 1], claims[p])
    BY <1>1
  <2>2. Sheet(f[p - 1])
    BY <1>1
  <2>3. claims[p].kind = kind /\ claims[p].by = x
    BY <1>2
  <2>4. kind \in {"place", "alert"} /\ Asks(in, claims[p])
    <3>1. claims[p].by \in Kept(in, claims[p].kind)
      BY <2>3 DEF IsOwn
    <3> QED
      BY <2>3, <3>1 DEF IsOwn, Asks
  <2>5. f[p] = PlaceOrShorten(f[p - 1], l)
    BY <2>1, <2>3, <2>4 DEF Claimed
  <2> QED
    BY <1>4, <2>2, <2>5, PlacingIsFair DEF Unsaid
<1>6. Fair(f[n], l)
  <2> DEFINE H == {i \in 0..n : i >= p => Fair(f[i], l)}
  <2>1. 0 \in H
    BY <1>1
  <2>2. ASSUME NEW i \in 1..n, i - 1 \in H PROVE i \in H
    <3>1. CASE i > p
      <4>1. i # p /\ i - 1 >= p /\ Fair(f[i - 1], l)
        BY <2>2, <3>1
      <4>2. Fair(f[i], l)
        BY <1>3, <4>1, SilenceKeeps
      <4> QED
        BY <4>2
    <3>2. CASE ~(i > p)
      BY <1>5, <3>2
    <3> QED
      BY <3>1, <3>2
  <2>3. \A i \in 0..n : i \in H
    <3> HIDE DEF H, n
    <3> QED
      BY <1>1, <2>1, <2>2, OneByOne
  <2>4. n \in 0..n /\ n >= p
    BY <1>1
  <2> QED
    BY <2>3, <2>4
<1> QED
  BY <1>1, <1>6

-----------------------------------------------------------------------------
(* The labels of every frame.                                              *)

\* Each field is as the program made it once.
AsGiven(in) ==
  /\ DOMAIN in = InputFields /\ in = [f \in InputFields |-> in[f]]
  /\ \A f \in FrameFields : \E s \in FrameGivens : f \in DOMAIN s /\ in[f] = s[f]

LEMMA GivenIs ==
    ASSUME NEW in, AsGiven(in)
    PROVE  /\ \A f \in FrameFields : IsField(f, in[f])
           /\ \A f, g \in Asking : f # g =>
                \A x \in Range(in[f]), y \in Range(in[g]) : LabelOf(f, x).id # LabelOf(g, y).id
<1>1. ASSUME NEW f \in FrameFields PROVE IsField(f, in[f])
  <2>1. PICK s \in FrameGivens : f \in DOMAIN s /\ in[f] = s[f]
    BY DEF AsGiven
  <2>2. IsField(f, s[f])
    BY <2>1, FrameAssumption
  <2> QED
    BY <2>1, <2>2
<1>2. ASSUME NEW f \in Asking, NEW g \in Asking, f # g, NEW x \in Range(in[f]), NEW y \in Range(in[g])
      PROVE  LabelOf(f, x).id # LabelOf(g, y).id
  <2>0. f \in FrameFields /\ g \in FrameFields
    BY DEF Asking, FrameFields
  <2>1. PICK s \in FrameGivens : f \in DOMAIN s /\ in[f] = s[f]
    BY <2>0 DEF AsGiven
  <2>2. PICK t \in FrameGivens : g \in DOMAIN t /\ in[g] = t[g]
    BY <2>0 DEF AsGiven
  <2>3. f \in DOMAIN s \cap Asking /\ g \in DOMAIN t \cap Asking /\ x \in Range(s[f]) /\ y \in Range(t[g])
    BY <1>2, <2>1, <2>2
  <2> QED
    BY <1>2, <2>3, FrameAssumption
<1> QED
  BY <1>1, <1>2

\* What a frame is drawn from asks for the text its input asks for.
LEMMA ContentAsks ==
    ASSUME NEW in, AsGiven(in)
    PROVE  IsAsking(Content(in))
<1> DEFINE c == Content(in)
           fixed == InputFields \ {"tiles", "phase"}
<1>1. /\ \A f \in fixed : c[f] = in[f]
      /\ c.tiles = InOrder(Range(in.tiles)) /\ c.phase = (in.phase \/ \A m \in Range(in.markers) : ~m.blink)
  BY DEF AsGiven, Content, InputFields, FrameFields
<1>2. Asking \subseteq fixed \cap FrameFields /\ {"alerts", "markers", "moment", "bands", "words"} \subseteq fixed
  BY DEF Asking, FrameFields, InputFields
<1>3. /\ \A f \in Asking : IsAsked(f, c[f])
      /\ \A f, g \in Asking : f # g =>
            \A x \in Range(c[f]), y \in Range(c[g]) : LabelOf(f, x).id # LabelOf(g, y).id
  <2>1. \A f \in Asking : c[f] = in[f] /\ f \in FrameFields
    BY <1>1, <1>2
  <2>2. \A f \in Asking : IsAsked(f, in[f])
    BY <2>1, GivenIs DEF IsField
  <2> QED
    BY <2>1, <2>2, GivenIs
<1>4. AreTiles(in.tiles) /\ IsLine(c.bands)
  <2>1. {"tiles", "bands"} \subseteq FrameFields
    BY DEF FrameFields
  <2>2. IsField("tiles", in.tiles) /\ IsField("bands", in.bands)
    BY <2>1, GivenIs
  <2> QED
    BY <1>1, <1>2, <2>2 DEF IsField, IsLine
<1>5. IsLine(Names(c))
  BY <1>1, <1>4, NamesAreALine
<1> QED
  BY <1>3, <1>4, <1>5 DEF IsAsking

\* In a sheet a text has a cell of its own.
LEMMA SheetCounts ==
    ASSUME NEW s, Sheet(s)
    PROVE  Cardinality(Occupied(s)) = Cardinality(s.text)
<1> DEFINE text == [c \in Occupied(s) |-> CHOOSE t \in s.text : t.at = c]
<1>1. IsFiniteSet(Screen)
  <2>1. IsFiniteSet(0..(FrameCols - 1)) /\ IsFiniteSet(0..(FrameRows - 1))
    <3>1. FrameCols \in Nat /\ FrameRows \in Nat
      BY FrameAssumption
    <3> QED
      BY <3>1, FS_Interval
  <2> QED
    BY <2>1, FS_Product DEF Screen
<1>2. \A c \in Occupied(s) : text[c] \in s.text /\ text[c].at = c
  BY DEF Occupied
<1>3. \A t \in s.text : t.at \in Occupied(s) /\ text[t.at] = t
  BY <1>2 DEF Occupied, Sheet
<1>4. text \in [Occupied(s) -> s.text]
  BY <1>2
<1>5. text \in Bijection(Occupied(s), s.text)
  <2> HIDE DEF text
  <2>1. \A c, d \in Occupied(s) : text[c] = text[d] => c = d
    BY <1>2
  <2>2. \A t \in s.text : \E c \in Occupied(s) : text[c] = t
    BY <1>3
  <2> QED
    BY <1>4, <2>1, <2>2, Zenon DEF Bijection, Injection, Surjection, IsInjective
<1>6. IsFiniteSet(Occupied(s))
  <2>1. Occupied(s) \subseteq Screen
    BY DEF Occupied, Sheet
  <2> QED
    BY <1>1, <2>1, FS_Subset
<1> QED
  BY <1>5, <1>6, FS_Bijection DEF ExistsBijection

\* The inputs are always as the program made them.
LEMMA FirstAsGiven == FrameInit => AsGiven(frameGiven)
<1> SUFFICES ASSUME FrameInit PROVE AsGiven(frameGiven)
  OBVIOUS
<1>1. PICK in \in FrameInputs :
         frameGiven = [f \in DOMAIN in \union {"look", "version"} |-> IF f \in DOMAIN in THEN in[f] ELSE 0]
  BY DEF FrameInit
<1>2. DOMAIN in = FrameFields /\ in \in FrameGivens
  BY FrameAssumption DEF FrameGivens
<1>3. frameGiven = [f \in InputFields |-> IF f \in FrameFields THEN in[f] ELSE 0] /\ FrameFields \subseteq InputFields
  BY <1>1, <1>2 DEF InputFields
<1>4. \A f \in FrameFields : f \in DOMAIN in /\ frameGiven[f] = in[f]
  BY <1>2, <1>3
<1> QED
  BY <1>2, <1>3, <1>4 DEF AsGiven

LEMMA NextAsGiven == AsGiven(frameGiven) /\ [FrameNext]_frameVars => AsGiven(frameGiven)'
<1> SUFFICES ASSUME AsGiven(frameGiven), [FrameNext]_frameVars PROVE AsGiven(frameGiven')
  BY DEF AsGiven
<1>1. CASE UNCHANGED frameGiven
  BY <1>1
<1>2. ASSUME NEW t \in FrameTweaks, Tweak(t) PROVE AsGiven(frameGiven')
  <2>1. DOMAIN t \subseteq FrameFields /\ t \in FrameGivens
    BY FrameAssumption DEF FrameGivens
  <2>2. frameGiven' = [f \in InputFields |-> IF f \in DOMAIN t THEN t[f]
                              ELSE IF f = "look" /\ "palette" \in DOMAIN t THEN frames'
                              ELSE IF f = "version" /\ DOMAIN t \cap Versioned # {} THEN frames'
                              ELSE frameGiven[f]]
    BY <1>2 DEF Tweak, AsGiven
  <2>3. \A f \in FrameFields : frameGiven'[f] = IF f \in DOMAIN t THEN t[f] ELSE frameGiven[f]
    <3> TAKE f \in FrameFields
    <3>1. f # "look" /\ f # "version" /\ f \in InputFields
      BY DEF FrameFields, InputFields
    <3> QED
      BY <2>2, <3>1
  <2>4. \A f \in FrameFields : \E s \in FrameGivens : f \in DOMAIN s /\ frameGiven'[f] = s[f]
    BY <2>1, <2>3 DEF AsGiven
  <2> QED
    BY <2>2, <2>4 DEF AsGiven
<1> QED
  BY <1>1, <1>2 DEF FrameNext, frameVars, Draw, DrawFails

\* No text of a frame is cut by another, and each label kept, of an alert in
\* its moment or of a marker that is lit, is whole, or shortened and told, or
\* told as not shown; only an alert with no shorter form may go missing with
\* nobody told (frame.go, compose and placeOrShorten).
THEOREM WordsAreFair == FrameSpec => []WordsAreWholeOrTold
<1>1. AsGiven(frameGiven) => WordsAreWholeOrTold
  <2> SUFFICES ASSUME AsGiven(frameGiven) PROVE WordsAreWholeOrTold
    OBVIOUS
  <2> DEFINE in == Content(frameGiven)
             sheet == Composed(in)
  <2>1. /\ IsAsking(in)
        /\ IsAsked("alerts", in.alerts) /\ IsAsked("markers", in.markers)
    BY ContentAsks, AskingIs
  <2>2. Sheet(sheet)
    <3>1. PICK f : /\ Len(Claims(in)) \in Nat /\ f[Len(Claims(in))] = sheet
                   /\ \A i \in 0..Len(Claims(in)) : Sheet(f[i])
      BY <2>1, ContestIsASheet
    <3> QED
      BY <3>1
  <2>3. Cardinality(Occupied(sheet)) = Cardinality(sheet.text)
    BY <2>2, SheetCounts
  <2>4. ASSUME NEW l \in {a.label : a \in Drawn(in) \cap Kept(in, "alert")}
                        \union {m.label : m \in Lit(in) \cap Kept(in, "place")}
        PROVE  Fair(sheet, l)
    <3> HIDE DEF in
    <3>1. CASE l \in {a.label : a \in Drawn(in) \cap Kept(in, "alert")}
      <4>1. PICK a \in Drawn(in) \cap Kept(in, "alert") : l = a.label
        BY <3>1
      <4>2. a \in Range(in.alerts) /\ IsOwn(in, "alert", a)
        BY <4>1 DEF Drawn, IsOwn
      <4>3. a.label.anchors \in Seq(Int \X Int) /\ a.label.width \in Nat /\ a.label.short \in Nat
        BY <2>1, <4>2 DEF IsAsked
      <4> QED
        BY <2>1, <4>1, <4>2, <4>3, ContestIsFair
    <3>2. CASE l \in {m.label : m \in Lit(in) \cap Kept(in, "place")}
      <4>1. PICK m \in Lit(in) \cap Kept(in, "place") : l = m.label
        BY <3>2
      <4>2. m \in Range(in.markers) /\ IsOwn(in, "place", m)
        BY <4>1 DEF Lit, IsOwn
      <4>3. m.label.anchors \in Seq(Int \X Int) /\ m.label.width \in Nat /\ m.label.short \in Nat
        BY <2>1, <4>2 DEF IsAsked
      <4> QED
        BY <2>1, <4>1, <4>2, <4>3, ContestIsFair
    <3> QED
      BY <2>4, <3>1, <3>2
  <2> QED
    BY <2>3, <2>4, Zenon DEF WordsAreWholeOrTold, Fair, TextOf, ToldOf, CellsIn, ToldAs
<1> QED
  BY <1>1, FirstAsGiven, NextAsGiven, PTL DEF FrameSpec

-----------------------------------------------------------------------------
(***************************************************************************)
(* The ink of a cell, for any canvas, strokes and inks. A forced ink locks *)
(* its cell, and nothing but another forcing is painted after one: the     *)
(* last ink set in a locked cell is the last forced (InkInv). In a cell    *)
(* that is not locked the dots vote, and the ink chosen is one of those    *)
(* with the most dots (VoteIsMost).                                        *)
(***************************************************************************)

InkOrDark == Inks \union {Dark}

InkTyped ==
  /\ lines.dot \in [Dots -> InkOrDark] /\ lines.last \in [Cells -> InkOrDark] /\ lines.locked \subseteq Cells
  /\ forcedIn \in [Cells -> InkOrDark]

\* The cells locked are those an ink is forced in, and they have a dot lit.
LockedHaveTheirInk ==
  \A c \in Cells :
    /\ c \in lines.locked => forcedIn[c] # Dark
    /\ forcedIn[c] # Dark => /\ c \in lines.locked /\ lines.last[c] = forcedIn[c]
                             /\ \E d \in DotsOf(c) : lines.dot[d] # Dark

InkInv == InkTyped /\ LockedHaveTheirInk

LEMMA DotsAreFinite ==
  /\ IsFiniteSet(Dots) /\ Cardinality(Dots) \in Nat
  /\ \A S : S \subseteq Dots => Cardinality(S) \in 0..Cardinality(Dots)
<1>1. 2 * CanvasCols - 1 \in Int /\ 4 * CanvasRows - 1 \in Int
  BY CanvasAssumption
<1>2. IsFiniteSet(Columns) /\ IsFiniteSet(Levels)
  BY <1>1, FS_Interval DEF Columns, Levels
<1>3. IsFiniteSet(Dots) /\ Cardinality(Dots) \in Nat
  BY <1>2, FS_Product, FS_CardinalityType DEF Dots
<1>4. ASSUME NEW S, S \subseteq Dots PROVE Cardinality(S) \in 0..Cardinality(Dots)
  <2>1. IsFiniteSet(S) /\ Cardinality(S) <= Cardinality(Dots)
    BY <1>3, <1>4, FS_Subset
  <2>2. Cardinality(S) \in Nat
    BY <2>1, FS_CardinalityType
  <2> QED
    BY <1>3, <2>1, <2>2
<1> QED
  BY <1>3, <1>4

LEMMA DotsHaveCells == \A d \in Dots : CellOf(d) \in Cells
<1> SUFFICES ASSUME NEW x \in Columns, NEW y \in Levels PROVE CellOf(<<x, y>>) \in Cells
  BY DEF Dots
<1>1. x \in 0..(2 * CanvasCols - 1) /\ y \in 0..(4 * CanvasRows - 1) /\ CanvasCols \in Nat /\ CanvasRows \in Nat
  BY CanvasAssumption DEF Columns, Levels
<1>2. x \div 2 \in 0..(CanvasCols - 1) /\ y \div 4 \in 0..(CanvasRows - 1)
  BY <1>1
<1> QED
  BY <1>2 DEF CellOf, Cells

\* In a cell that is not locked the vote is for an ink that no other's dots
\* outnumber.
LEMMA VoteIsMost ==
    ASSUME NEW c, c.dot \in [Dots -> InkOrDark], NEW cell \in Cells, cell \notin c.locked,
           \E d \in DotsOf(cell) : c.dot[d] # Dark
    PROVE  \A i \in Inks : tally(c, cell, i) = 0 \/ tally(c, cell, vote(c, cell)) >= tally(c, cell, i)
<1> DEFINE inks   == {c.dot[d] : d \in DotsOf(cell)} \ {Dark}
           most   == {i \in inks : \A j \in inks : tally(c, cell, i) >= tally(c, cell, j)}
           common == {i \in most : \A j \in most : around(c, cell, i) >= around(c, cell, j)}
           N      == Cardinality(Dots)
<1>1. inks # {} /\ DotsOf(cell) \subseteq Dots
  BY DEF DotsOf
<1>2. vote(c, cell) = FirstMet(c, cell, common)
  BY <1>1 DEF vote
<1>3. \A i : tally(c, cell, i) \in 0..N /\ around(c, cell, i) \in 0..N
  BY <1>1, DotsAreFinite DEF tally, around
<1>4. N \in Nat
  BY DotsAreFinite
<1>5. most # {}
  <2> DEFINE tallies == {tally(c, cell, i) : i \in inks}
  <2>1. tallies \subseteq 0..N /\ tallies # {}
    BY <1>1, <1>3
  <2> HIDE DEF tallies
  <2>2. Max(tallies) \in tallies /\ \A n \in tallies : n <= Max(tallies)
    BY <1>4, <2>1, GreatestOf
  <2>3. PICK i \in inks : tally(c, cell, i) = Max(tallies)
    BY <2>2 DEF tallies
  <2>4. \A j \in inks : tally(c, cell, i) >= tally(c, cell, j)
    BY <1>3, <2>2, <2>3 DEF tallies
  <2> QED
    BY <2>4
<1>6. common # {}
  <2> DEFINE arounds == {around(c, cell, i) : i \in most}
  <2> HIDE DEF most
  <2>1. arounds \subseteq 0..N /\ arounds # {}
    BY <1>5, <1>3
  <2> HIDE DEF arounds
  <2>2. Max(arounds) \in arounds /\ \A n \in arounds : n <= Max(arounds)
    BY <1>4, <2>1, GreatestOf
  <2>3. PICK i \in most : around(c, cell, i) = Max(arounds)
    BY <2>2 DEF arounds
  <2>4. \A j \in most : around(c, cell, i) >= around(c, cell, j)
    BY <1>3, <2>2, <2>3 DEF arounds
  <2> QED
    BY <2>4
<1>7. FirstMet(c, cell, common) \in common
  <2> DEFINE Scan(d) == 2 * CanvasCols * d[2] + d[1]
             met == {d \in DotsOf(cell) : c.dot[d] \in common}
             scans == {Scan(d) : d \in met}
  <2>1. met # {}
    BY <1>6
  <2>2. \A d \in Dots : Scan(d) \in Nat
    <3> SUFFICES ASSUME NEW x \in Nat, NEW y \in Nat PROVE 2 * CanvasCols * y + x \in Nat
      BY CanvasAssumption DEF Dots, Columns, Levels
    <3>1. 2 * CanvasCols \in Nat
      BY CanvasAssumption
    <3>2. \A n \in Nat : n * y \in Nat
      OBVIOUS
    <3> QED
      BY <3>1, <3>2
  <2> HIDE DEF Scan, common
  <2>3. scans \subseteq Nat /\ scans # {}
    BY <1>1, <2>1, <2>2
  <2>4. PICK d \in met : \A e \in met : Scan(d) <= Scan(e)
    <3> HIDE DEF scans, met
    <3>1. Min(scans) \in scans /\ \A n \in scans : Min(scans) <= n
      BY <2>3, LeastOf
    <3>2. PICK d \in met : Scan(d) = Min(scans)
      BY <3>1 DEF scans
    <3>3. \A e \in met : Scan(d) <= Scan(e)
      BY <3>1, <3>2 DEF scans
    <3> QED
      BY <3>3
  <2>5. FirstMet(c, cell, common) = c.dot[CHOOSE e \in met : \A f \in met : Scan(e) <= Scan(f)]
    BY DEF FirstMet, Scan
  <2> QED
    BY <2>4, <2>5
<1>8. vote(c, cell) \in most
  BY <1>2, <1>7
<1>9. ASSUME NEW i \in Inks, i \notin inks PROVE tally(c, cell, i) = 0
  <2>1. {d \in DotsOf(cell) : c.dot[d] = i} = {}
    BY <1>9, CanvasAssumption
  <2> QED
    BY <2>1, FS_EmptySet DEF tally
<1> QED
  BY <1>8, <1>9

LEMMA InkOnCanvas == InkInv => CellsShowTheirInk
<1> SUFFICES ASSUME InkInv, NEW cell \in Cells
    PROVE  IF forcedIn[cell] # Dark THEN Cell(lines, cell) = forcedIn[cell]
           ELSE \A i \in Inks : \/ tally(lines, cell, i) = 0
                                \/ tally(lines, cell, Cell(lines, cell)) >= tally(lines, cell, i)
  BY DEF CellsShowTheirInk
<1>1. CASE forcedIn[cell] # Dark
  <2>1. cell \in lines.locked /\ lines.last[cell] = forcedIn[cell] /\ \E d \in DotsOf(cell) : lines.dot[d] # Dark
    BY <1>1 DEF InkInv, LockedHaveTheirInk
  <2> QED
    BY <1>1, <2>1 DEF Cell, vote
<1>2. CASE forcedIn[cell] = Dark
  <2>1. cell \notin lines.locked
    BY <1>2 DEF InkInv, LockedHaveTheirInk
  <2>2. CASE \A d \in DotsOf(cell) : lines.dot[d] = Dark
    <3>1. ASSUME NEW i \in Inks PROVE tally(lines, cell, i) = 0
      <4>1. {d \in DotsOf(cell) : lines.dot[d] = i} = {}
        BY <2>2, <3>1, CanvasAssumption
      <4> QED
        BY <4>1, FS_EmptySet DEF tally
    <3> QED
      BY <1>2, <3>1
  <2>3. CASE \E d \in DotsOf(cell) : lines.dot[d] # Dark
    <3>1. Cell(lines, cell) = vote(lines, cell)
      BY <2>3 DEF Cell
    <3>2. \A i \in Inks : tally(lines, cell, i) = 0 \/ tally(lines, cell, vote(lines, cell)) >= tally(lines, cell, i)
      BY <2>1, <2>3, VoteIsMost DEF InkInv, InkTyped
    <3> QED
      BY <1>2, <3>1, <3>2
  <2> QED
    BY <2>2, <2>3
<1> QED
  BY <1>1, <1>2

\* A canvas wiped has no ink.
LEMMA WipedHasNoInk ==
    ASSUME lines' = Wiped, forcedIn' = [c \in Cells |-> Dark]
    PROVE  InkInv'
<1>1. lines'.dot = [d \in Dots |-> Dark] /\ lines'.last = [c \in Cells |-> Dark] /\ lines'.locked = {}
  BY DEF Wiped
<1> QED
  BY <1>1 DEF InkInv, InkTyped, LockedHaveTheirInk, InkOrDark

LEMMA InkAtFirst == CanvasInit => InkInv
<1> SUFFICES ASSUME CanvasInit PROVE InkInv
  OBVIOUS
<1>1. lines.dot = [d \in Dots |-> Dark] /\ lines.last = [c \in Cells |-> Dark] /\ lines.locked = {}
      /\ forcedIn = [c \in Cells |-> Dark]
  BY DEF CanvasInit, Wiped
<1> QED
  BY <1>1 DEF InkInv, InkTyped, LockedHaveTheirInk, InkOrDark

\* What a stroke sets is of the canvas.
LEMMA SetKeepsTheCanvas ==
    ASSUME InkInv, NEW dots, NEW ink \in Inks, NEW forcing \in BOOLEAN
    PROVE  LET c == Set(lines, dots, ink, forcing) IN
           /\ c.dot \in [Dots -> InkOrDark] /\ c.last \in [Cells -> InkOrDark] /\ c.locked \subseteq Cells
<1>1. {CellOf(d) : d \in dots \cap Dots} \subseteq Cells
  BY DotsHaveCells
<1> QED
  BY <1>1 DEF Set, InkInv, InkTyped, InkOrDark

\* Nothing without force is painted over an overlay or a marker.
LEMMA StreetKeepsInk == ASSUME NEW ink \in Inks, NEW part \in Streets PROVE InkInv /\ DrawStreet(part, ink) => InkInv'
<1> SUFFICES ASSUME InkInv, DrawStreet(part, ink) PROVE InkInv'
  OBVIOUS
<1>1. forcedIn' = forcedIn /\ \A c \in Cells : forcedIn[c] = Dark
  BY DEF DrawStreet, Overlaid
<1>2. lines' = lines \/ lines' = Set(lines, StrokePart(part), ink, FALSE)
  BY DEF DrawStreet
<1>3. lines'.dot \in [Dots -> InkOrDark] /\ lines'.last \in [Cells -> InkOrDark] /\ lines'.locked \subseteq Cells
  BY <1>2, SetKeepsTheCanvas DEF InkInv, InkTyped
<1>4. lines'.locked = lines.locked
  BY <1>2 DEF Set
<1> QED
  BY <1>1, <1>3, <1>4 DEF InkInv, InkTyped, LockedHaveTheirInk

\* A forced ink is the last of every cell it is set in, and of no other.
LEMMA ForcedIsLast ==
    ASSUME InkInv, NEW dots, NEW ink \in Inks, NEW s, ForceDots(dots, ink, s)
    PROVE  InkInv'
<1> DEFINE on == dots \cap Dots
           cells == {CellOf(d) : d \in on}
<1>1. lines' = Set(lines, dots, ink, TRUE)
      /\ forcedIn' = [c \in Cells |-> IF c \in cells THEN ink ELSE forcedIn[c]]
  BY DEF ForceDots, SetForced
<1>2. /\ lines'.dot = [d \in Dots |-> IF d \in on THEN ink ELSE lines.dot[d]]
      /\ lines'.last = [x \in Cells |-> IF x \in cells THEN ink ELSE lines.last[x]]
      /\ lines'.locked = lines.locked \cup cells
  BY <1>1 DEF Set
<1>3. InkTyped'
  <2>1. lines'.dot \in [Dots -> InkOrDark] /\ lines'.last \in [Cells -> InkOrDark] /\ lines'.locked \subseteq Cells
    BY <1>1, SetKeepsTheCanvas
  <2>2. forcedIn' \in [Cells -> InkOrDark]
    BY <1>1 DEF InkInv, InkTyped, InkOrDark
  <2> QED
    BY <2>1, <2>2 DEF InkTyped
<1>4. ink # Dark
  BY CanvasAssumption
<1>5. ASSUME NEW c \in Cells
      PROVE  /\ c \in lines'.locked => forcedIn'[c] # Dark
             /\ forcedIn'[c] # Dark => /\ c \in lines'.locked /\ lines'.last[c] = forcedIn'[c]
                                       /\ \E d \in DotsOf(c) : lines'.dot[d] # Dark
  <2>1. CASE c \in cells
    <3>1. PICK d \in on : c = CellOf(d)
      BY <2>1
    <3>2. d \in DotsOf(c) /\ lines'.dot[d] = ink
      BY <1>2, <3>1 DEF DotsOf
    <3> QED
      BY <1>1, <1>2, <1>4, <2>1, <3>2
  <2>2. CASE c \notin cells
    <3>1. forcedIn'[c] = forcedIn[c] /\ lines'.last[c] = lines.last[c] /\ (c \in lines'.locked <=> c \in lines.locked)
      BY <1>1, <1>2, <2>2
    <3>2. \A d \in DotsOf(c) : lines'.dot[d] = lines.dot[d]
      BY <1>2, <2>2 DEF DotsOf
    <3> QED
      BY <3>1, <3>2 DEF InkInv, LockedHaveTheirInk
  <2> QED
    BY <2>1, <2>2
<1> QED
  BY <1>3, <1>5 DEF InkInv, LockedHaveTheirInk

LEMMA InkNext == InkInv /\ [CanvasNext]_canvasVars => InkInv'
<1> SUFFICES ASSUME InkInv, [CanvasNext]_canvasVars PROVE InkInv'
  OBVIOUS
<1>1. ASSUME NEW ink \in Inks, NEW part \in Streets, DrawStreet(part, ink) PROVE InkInv'
  BY <1>1, StreetKeepsInk
<1>2. ASSUME NEW ink \in Inks, NEW rings \in Areas, FillArea(rings, ink) PROVE InkInv'
  BY <1>2 DEF FillArea, InkInv, InkTyped, LockedHaveTheirInk
<1>3. ASSUME NEW ink \in Inks, NEW ring \in OverlayRings, DrawOutline(ring, ink) PROVE InkInv'
  BY <1>3, ForcedIsLast DEF DrawOutline
<1>4. ASSUME NEW ink \in Inks, NEW m \in Marks, DrawMarker(m, ink) PROVE InkInv'
  BY <1>4, ForcedIsLast DEF DrawMarker
<1>5. CASE NextFrame
  BY <1>5, WipedHasNoInk DEF NextFrame, Wipe
<1>6. CASE UNCHANGED canvasVars
  BY <1>6 DEF canvasVars, InkInv, InkTyped, LockedHaveTheirInk
<1> QED
  BY <1>1, <1>2, <1>3, <1>4, <1>5, <1>6 DEF CanvasNext

\* A cell shows the ink last forced in it, by an overlay or a marker; else an
\* ink that none of its lit dots outnumber; and nothing of the frame before
\* (canvas.go vote, Wipe).
THEOREM CellsAreInked == CanvasSpec => []CellsShowTheirInk
<1> QED
  BY InkOnCanvas, InkAtFirst, InkNext, PTL DEF CanvasSpec
=================================================================================
