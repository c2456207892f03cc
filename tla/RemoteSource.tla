---------------------------- MODULE RemoteSource ----------------------------
(***************************************************************************)
(* A named tile source (internal/tiles/remote.go), the requests it is      *)
(* fetched with (internal/fetch) and the host's calls that name it         *)
(* (tiles.go).  A source that is a TileJSON document is read once, inside  *)
(* the first tile job that needs it: that job claims the read, the jobs    *)
(* asking meanwhile wait on its channel, and a job that has waited for two *)
(* readers in turn reads for itself without a claim.                       *)
(*                                                                         *)
(* A remote is known by its number: every call that changes the source or  *)
(* the options makes a new one, and a job keeps the one it began with.     *)
(***************************************************************************)
EXTENDS Integers, Sequences, FiniteSets

CONSTANTS
  Jobs,         \* the tile jobs that may run at the same time
  Addresses,    \* the addresses the host names: [place, prefix]
  Documents,    \* what a source may send for its TileJSON
  Says,         \* what each document says
  Places,       \* where a redirect may point
  MaxRedirects, \* fetch.maxRedirects
  MaxZoom,      \* scene.MaxTileZoom
  MaxRemotes,   \* bound: how many times the host makes a remote
  MaxCalls      \* bound: how many times a job begins

ASSUME RemoteAssumption ==
  /\ MaxRedirects \in Nat /\ MaxZoom \in Nat
  /\ MaxRemotes \in Nat /\ MaxCalls \in Nat

VARIABLES
  remote,   \* Map.remote: the remote in use, 0 for none
  made,     \* the address of every remote made
  kept,     \* the TileJSON each has read: Unread, or the document
  reading,  \* whether a claimed read is in flight (Remote.reading # nil)
  at,       \* where each job stands in Get
  of,       \* the remote the job took
  turn,     \* how many readers it has waited for
  claimed,  \* whether its read is the claimed one
  doc,      \* the document it was told
  hops,     \* the redirects its request has followed
  end,      \* its request's context: "open", or ended "late" or by its "caller"
  got,      \* what its fetch came to, None while it is out
  ctx,      \* the job's own context: "live" or "ended"
  last,     \* the last Get that came back: its outcome and its job's context
  calls     \* how many jobs have begun

hostVars == <<remote, made>>
readVars == <<kept, reading>>
requestVars == <<hops, end, got>>
jobVars == <<at, of, turn, claimed, doc, last, calls>>
vars == <<hostVars, readVars, requestVars, jobVars, ctx>>

None == "none"
Failures == {"failed", "refused", "cancelled"}
Unread == "unread"
Directory == "directory"   \* the template a directory source stands for
Absent == -1               \* a zoom the document does not give
Remotes == 1..MaxRemotes

\* What a source sends is none of the marks a remote or a fetch is given here.
ASSUME DocumentAssumption ==
  Documents \intersect (Failures \union {None, Unread, Directory, "tile"}) = {}

-----------------------------------------------------------------------------
(* What a document says, and whether it is taken.                          *)

\* One rule for a source's requests, their redirects and its tile addresses.
Confined(place, source) == place = source

\* A tile address: where it points, the tokens in its braces, and what else
\* is odd about its spelling.
CheckAddress(a, source) == a.odd = {} /\ Confined(a.place, source)

ParseTemplate(tokens) ==
  /\ \A i \in DOMAIN tokens : tokens[i] \in {"z", "x", "y"}
  /\ {tokens[i] : i \in DOMAIN tokens} = {"z", "x", "y"}

Zoom(z, otherwise) == IF z = Absent THEN otherwise ELSE z

ParseTileJSON(d, source) ==
  /\ d.within /\ d.tiles # << >>
  /\ CheckAddress(d.tiles[1], source)
  /\ ParseTemplate(d.tiles[1].tokens)
  /\ {d.lo, d.hi} \subseteq {Absent} \union 0..MaxZoom
  /\ Zoom(d.lo, 0) <= Zoom(d.hi, MaxZoom)
  /\ d.schema

\* Whether what remote g was told is a source to fetch tiles from.
Taken(g, d) == d # Directory => ParseTileJSON(Says[d], made[g].place)

\* The zooms the pipeline plans with.
Zooms(g) ==
  IF kept[g] \in {Unread, Directory} \/ ~Taken(g, kept[g]) THEN <<0, MaxZoom>>
  ELSE <<Zoom(Says[kept[g]].lo, 0), Zoom(Says[kept[g]].hi, MaxZoom)>>

-----------------------------------------------------------------------------
(* The host names a source, takes it away, or changes how it fetches.      *)

\* Source, and SetFetchOptions while a source is named, make a remote anew.
\* A directory's template is made at once; a document is not read yet.
UseSource(a) ==
  /\ Len(made) < MaxRemotes
  /\ made' = Append(made, a)
  /\ remote' = Len(made) + 1
  /\ kept' = [kept EXCEPT ![Len(made) + 1] = IF a.prefix THEN Directory ELSE Unread]
  /\ UNCHANGED <<reading, requestVars, jobVars, ctx>>

SourceOff ==
  /\ remote' = 0
  /\ UNCHANGED <<made, readVars, requestVars, jobVars, ctx>>

-----------------------------------------------------------------------------
(* A job's Get: describe, then the tile.                                   *)

Begin(j) ==
  /\ at[j] = "idle" /\ remote # 0 /\ calls < MaxCalls
  /\ at' = [at EXCEPT ![j] = "claim"]
  /\ of' = [of EXCEPT ![j] = remote]
  /\ calls' = calls + 1
  /\ UNCHANGED <<hostVars, readVars, requestVars, turn, claimed, doc, last, ctx>>

\* A request goes out under a deadline of its own within the job's context.
Ask(j) ==
  /\ hops' = [hops EXCEPT ![j] = 0]
  /\ end' = [end EXCEPT ![j] = IF ctx[j] = "ended" THEN "caller" ELSE "open"]
  /\ got' = [got EXCEPT ![j] = None]

\* Mutant: only a job that waits for the first time is woken.
WaitersOnce(j) ==
  IF claimed[j] THEN {i \in Jobs : at[i] = "waiting" /\ of[i] = of[j] /\ turn[i] = 0} ELSE {}

\* The jobs waiting on job j's claimed read, which ends with this step.
Waiters(j) ==
  IF claimed[j] THEN {i \in Jobs : at[i] = "waiting" /\ of[i] = of[j]} ELSE {}

\* Job j goes to a place in Get, and the jobs it held up go on.
Moves(j, place) ==
  at' = [i \in Jobs |-> IF i = j THEN place ELSE IF i \in Waiters(j) THEN "woken" ELSE at[i]]

\* Get returns, and what was the call's alone is gone.
Returns(j, outcome) ==
  /\ Moves(j, "idle")
  /\ last' = [outcome |-> outcome, ctx |-> ctx[j]]
  /\ ctx' = [ctx EXCEPT ![j] = "live"]
  /\ of' = [of EXCEPT ![j] = 0]
  /\ doc' = [doc EXCEPT ![j] = None]
  /\ claimed' = [claimed EXCEPT ![j] = FALSE]
  /\ turn' = [turn EXCEPT ![j] = 0]
  /\ hops' = [hops EXCEPT ![j] = 0]
  /\ end' = [end EXCEPT ![j] = "open"]
  /\ got' = [got EXCEPT ![j] = None]

\* describe has its answer: the tile is asked for, or the refusal returned.
Told(j, d) ==
  \/ /\ Taken(of[j], d)
     /\ Moves(j, "tile")
     /\ doc' = [doc EXCEPT ![j] = d]
     /\ claimed' = [claimed EXCEPT ![j] = FALSE]
     /\ Ask(j)
     /\ UNCHANGED <<last, of, ctx, turn>>
  \/ ~Taken(of[j], d) /\ Returns(j, "refused")

ClaimTold(j) ==
  /\ at[j] = "claim" /\ turn[j] < 2 /\ kept[of[j]] # Unread
  /\ Told(j, kept[of[j]])
  /\ UNCHANGED <<hostVars, readVars, calls>>

ClaimWait(j) ==
  /\ at[j] = "claim" /\ turn[j] < 2 /\ kept[of[j]] = Unread /\ reading[of[j]]
  /\ at' = [at EXCEPT ![j] = "waiting"]
  /\ UNCHANGED <<hostVars, readVars, requestVars, of, turn, claimed, doc, last, calls, ctx>>

ClaimRead(j) ==
  /\ at[j] = "claim" /\ turn[j] < 2 /\ kept[of[j]] = Unread /\ ~reading[of[j]]
  /\ at' = [at EXCEPT ![j] = "reading"]
  /\ claimed' = [claimed EXCEPT ![j] = TRUE]
  /\ reading' = [reading EXCEPT ![of[j]] = TRUE]
  /\ Ask(j)
  /\ UNCHANGED <<hostVars, kept, of, turn, doc, last, calls, ctx>>

\* Two readers in turn got no answer: this job asks for itself.
ReadUnclaimed(j) ==
  /\ at[j] = "claim" /\ turn[j] = 2
  /\ at' = [at EXCEPT ![j] = "reading"]
  /\ Ask(j)
  /\ UNCHANGED <<hostVars, readVars, of, turn, claimed, doc, last, calls, ctx>>

Wake(j) ==
  /\ at[j] = "woken"
  /\ at' = [at EXCEPT ![j] = "claim"]
  /\ turn' = [turn EXCEPT ![j] = @ + 1]
  /\ UNCHANGED <<hostVars, readVars, requestVars, of, claimed, doc, last, calls, ctx>>

GiveUpWaiting(j) ==
  /\ at[j] \in {"waiting", "woken"} /\ ctx[j] = "ended"
  /\ Returns(j, "cancelled")
  /\ UNCHANGED <<hostVars, readVars, calls>>

\* A fetcher's error in the job's own terms.
Own(j) == IF ctx[j] = "ended" THEN "cancelled" ELSE got[j]

\* Mutant: a claimed read that failed is not ended.
EndReadingOnAnswer(j) ==
  reading' = IF claimed[j] /\ got[j] \in Documents THEN [reading EXCEPT ![of[j]] = FALSE] ELSE reading

EndReading(j) == reading' = IF claimed[j] THEN [reading EXCEPT ![of[j]] = FALSE] ELSE reading

\* A failed read is not kept: the network may come back.
ReadFails(j) ==
  /\ at[j] = "reading" /\ got[j] \in Failures
  /\ EndReading(j)
  /\ Returns(j, Own(j))
  /\ UNCHANGED <<hostVars, kept, calls>>

\* The first answer is the one kept, and the one a later reader is told.
Answer(j) == IF kept[of[j]] # Unread THEN kept[of[j]] ELSE got[j]

\* Mutant: the answer kept is the first, the one told is the reader's own.
ReadAnswersOwn(j) ==
  /\ at[j] = "reading" /\ got[j] \in Documents
  /\ EndReading(j)
  /\ kept' = [kept EXCEPT ![of[j]] = Answer(j)]
  /\ Told(j, got[j])
  /\ UNCHANGED <<hostVars, calls>>

ReadAnswers(j) ==
  /\ at[j] = "reading" /\ got[j] \in Documents
  /\ EndReading(j)
  /\ kept' = [kept EXCEPT ![of[j]] = Answer(j)]
  /\ Told(j, Answer(j))
  /\ UNCHANGED <<hostVars, calls>>

TileEnds(j) ==
  /\ at[j] = "tile" /\ got[j] # None
  /\ Returns(j, IF got[j] = "tile" THEN "tile" ELSE Own(j))
  /\ UNCHANGED <<hostVars, readVars, calls>>

-----------------------------------------------------------------------------
(* The request: Fetcher.Fetch, its transport and its redirects.            *)

Out(j) == at[j] \in {"reading", "tile"} /\ got[j] = None

\* What the transport's error is called: the caller's end is told from the
\* request's own by the cause that came first.
TransportError(j) == IF end[j] = "caller" THEN "cancelled" ELSE "failed"

\* checkRedirect: a redirect past the third, or out of the source, is refused.
Redirect(j, place) ==
  /\ Out(j) /\ end[j] = "open"
  /\ \/ /\ hops[j] < MaxRedirects /\ Confined(place, made[of[j]].place)
        /\ hops' = [hops EXCEPT ![j] = @ + 1]
        /\ UNCHANGED got
     \/ /\ hops[j] = MaxRedirects \/ ~Confined(place, made[of[j]].place)
        /\ got' = [got EXCEPT ![j] = "refused"]
        /\ UNCHANGED hops
  /\ UNCHANGED <<hostVars, readVars, jobVars, ctx, end>>

\* A reply is read to its end, and judged by the request's context after: a
\* transport that ignored it brings back an answer that is thrown away.
Reply(j, body) ==
  /\ Out(j)
  /\ body \in (IF at[j] = "tile" THEN {"tile"} ELSE Documents)
  /\ got' = [got EXCEPT ![j] = IF end[j] = "open" THEN body ELSE TransportError(j)]
  /\ UNCHANGED <<hostVars, readVars, jobVars, ctx, hops, end>>

\* No connection, a status other than the one asked for, a body over its
\* limit, or a context that ended under it.
Fail(j) ==
  /\ Out(j)
  /\ got' = [got EXCEPT ![j] = TransportError(j)]
  /\ UNCHANGED <<hostVars, readVars, jobVars, ctx, hops, end>>

TooLate(j) ==
  /\ Out(j) /\ end[j] = "open"
  /\ end' = [end EXCEPT ![j] = "late"]
  /\ UNCHANGED <<hostVars, readVars, jobVars, ctx, hops, got>>

\* The host ends the context of the Work or the Settle the job runs in.
EndContext(j) ==
  /\ at[j] # "idle" /\ ctx[j] = "live"
  /\ ctx' = [ctx EXCEPT ![j] = "ended"]
  /\ end' = [end EXCEPT ![j] = IF Out(j) /\ @ = "open" THEN "caller" ELSE @]
  /\ UNCHANGED <<hostVars, readVars, jobVars, hops, got>>

\* A host's transport panics: the queue recovers the job (work.safely), and
\* nothing of read after the fetch is run.
Panic(j) ==
  /\ Out(j)
  /\ at' = [at EXCEPT ![j] = "idle"]
  /\ last' = [outcome |-> "internal", ctx |-> ctx[j]]
  /\ ctx' = [ctx EXCEPT ![j] = "live"]
  /\ of' = [of EXCEPT ![j] = 0]
  /\ claimed' = [claimed EXCEPT ![j] = FALSE]
  /\ doc' = [doc EXCEPT ![j] = None]
  /\ turn' = [turn EXCEPT ![j] = 0]
  /\ hops' = [hops EXCEPT ![j] = 0]
  /\ end' = [end EXCEPT ![j] = "open"]
  /\ UNCHANGED <<hostVars, readVars, got, calls>>

-----------------------------------------------------------------------------
Init ==
  /\ remote = 0 /\ made = << >>
  /\ kept = [g \in Remotes |-> Unread] /\ reading = [g \in Remotes |-> FALSE]
  /\ at = [j \in Jobs |-> "idle"] /\ of = [j \in Jobs |-> 0]
  /\ turn = [j \in Jobs |-> 0] /\ claimed = [j \in Jobs |-> FALSE]
  /\ doc = [j \in Jobs |-> None] /\ hops = [j \in Jobs |-> 0]
  /\ end = [j \in Jobs |-> "open"] /\ got = [j \in Jobs |-> None]
  /\ ctx = [j \in Jobs |-> "live"] /\ last = [outcome |-> None, ctx |-> "live"]
  /\ calls = 0

Describe(j) ==
  \/ ClaimTold(j) \/ ClaimWait(j) \/ ClaimRead(j) \/ ReadUnclaimed(j)
  \/ Wake(j) \/ GiveUpWaiting(j)

Get(j) == Describe(j) \/ ReadFails(j) \/ ReadAnswers(j) \/ TileEnds(j)

Transport(j) ==
  \/ \E place \in Places : Redirect(j, place)
  \/ \E body \in Documents \union {"tile"} : Reply(j, body)
  \/ Fail(j)

Host ==
  \/ \E a \in Addresses : UseSource(a)
  \/ SourceOff

Next ==
  \/ Host
  \/ \E j \in Jobs : Begin(j) \/ Get(j) \/ Transport(j) \/ TooLate(j) \/ EndContext(j)

\* A job that can go on does, and every request ends: its context has a
\* deadline, and a transport is asked to honour it.  The host need not end a
\* context, nor begin a job.
Fairness == \A j \in Jobs : WF_vars(Get(j)) /\ WF_vars(Transport(j))

Spec == Init /\ [][Next]_vars /\ Fairness

\* The same under a host's transport that may panic.
PanicSpec == Init /\ [][Next \/ \E j \in Jobs : Panic(j)]_vars /\ Fairness

-----------------------------------------------------------------------------
TypeOK ==
  /\ remote \in 0..MaxRemotes
  /\ made \in Seq(Addresses) /\ Len(made) <= MaxRemotes
  /\ remote <= Len(made)
  /\ kept \in [Remotes -> Documents \union {Unread, Directory}]
  /\ reading \in [Remotes -> BOOLEAN]
  /\ at \in [Jobs -> {"idle", "claim", "waiting", "woken", "reading", "tile"}]
  /\ of \in [Jobs -> 0..MaxRemotes]
  /\ \A j \in Jobs : of[j] <= Len(made) /\ (at[j] # "idle" => of[j] # 0)
  /\ turn \in [Jobs -> 0..2] /\ claimed \in [Jobs -> BOOLEAN]
  /\ doc \in [Jobs -> Documents \union {None, Directory}]
  /\ hops \in [Jobs -> 0..MaxRedirects]
  /\ end \in [Jobs -> {"open", "late", "caller"}]
  /\ got \in [Jobs -> Documents \union Failures \union {None, "tile"}]
  /\ ctx \in [Jobs -> {"live", "ended"}]
  /\ last \in [outcome : Failures \union {None, "tile", "internal"}, ctx : {"live", "ended"}]
  /\ calls \in 0..MaxCalls

Reader(j, g) == at[j] = "reading" /\ claimed[j] /\ of[j] = g

(* The channel the waiters wait on is there exactly while one job, and no  *)
(* more than one, reads what it was made for: nobody waits for a reader    *)
(* that is gone (describe, claim and read of remote.go, over any two       *)
(* cancels, failures and changes of source).                               *)
WaitersHaveAReader ==
  \A g \in Remotes :
     /\ reading[g] <=> \E j \in Jobs : Reader(j, g)
     /\ \A i, j \in Jobs : Reader(i, g) /\ Reader(j, g) => i = j
     /\ \A i \in Jobs : at[i] = "waiting" /\ of[i] = g => reading[g]

(* Every tile of a source is asked for by the one document kept of it,     *)
(* also by a job whose own read, made without a claim, was answered with   *)
(* another document than the first (read of remote.go).                    *)
TilesFollowTheKept ==
  \A j \in Jobs : at[j] = "tile" => doc[j] = kept[of[j]] /\ Taken(of[j], kept[of[j]])

(* The answer a source gave first stays its answer: neither a later        *)
(* reader, nor a failure, nor a second reader's refusal takes it away.     *)
FirstAnswerStays ==
  [][\A g \in Remotes : kept[g] # Unread => kept'[g] = kept[g]]_vars

(* "Another job's cancel is never its failure": a job comes back cancelled *)
(* only when its own context ended, whoever it waited for and whichever    *)
(* deadline its request met (own and transportError).                      *)
CancelIsOnesOwn == last.outcome = "cancelled" => last.ctx = "ended"

(* What a job comes back with is its source's and its own: the tile of the *)
(* document kept, and no other job's cancel.                               *)
AnswersAreTrue == TilesFollowTheKept /\ CancelIsOnesOwn

(* Every job that asks a source for a tile comes back, whoever it waits    *)
(* for and however often its readers are given up, with no help from its   *)
(* own context.                                                            *)
EveryJobEnds == \A j \in Jobs : at[j] # "idle" ~> at[j] = "idle"

=============================================================================
