---------------------------- MODULE AdapterFetch ----------------------------
(***************************************************************************)
(* One Fetch of a provider adapter (internal/adapter/provider/<p>/         *)
(* adapter.go) and the threshold Job.Fetch puts on its result.  A page is  *)
(* copied to raw storage through a TeeReader whose other end, an io.Pipe,  *)
(* feeds the normalizer: a write to the pipe waits until the normalizer    *)
(* has read it, or has closed its end.                                     *)
(***************************************************************************)
EXTENDS Integers, FiniteSets

CONSTANTS
  MaxStreams,   \* bound: regions (AWS, Azure) or endpoints (GCP) of a fetch
  MaxPages,     \* bound: pages of a stream
  Chunks,       \* reads that bring a page
  PageCap,      \* maxPages of the GCP adapter
  MaxUnmapped   \* MaxUnmappedRatio, in percent

ASSUME FetchAssumption ==
  /\ {MaxStreams, MaxPages, Chunks, PageCap} \subseteq Nat \ {0}
  /\ MaxUnmapped \in 0..100

VARIABLES
  shape,     \* the adapter
  streams,   \* how many streams it fetches
  at,        \* where Fetch is
  page,      \* <<stream, page>>, the current one
  store,     \* the goroutine that writes the raw object
  pipe,      \* how either end of the pipe was closed
  norm,      \* the goroutine that normalizes
  objects,   \* what is in raw storage
  asked,     \* history variable: the pages requested
  panicked,  \* history variable: the pages whose normalizer panicked
  used,      \* the pages whose observations are in the result
  sink       \* the pages with an item in the quarantine sink

fetchVars == <<shape, streams, at, page, store, pipe, norm, objects, asked, panicked, used, sink>>

(* What the adapters do differently: whether they fetch several streams, of *)
(* several pages, whether a stream that fails is skipped when there are     *)
(* others, and what a panic of the normalizer comes to ("crash": it is not  *)
(* recovered and ends the process, module Orchestrator).                    *)
Aws == [multi |-> TRUE, paged |-> FALSE, skips |-> TRUE, capped |-> FALSE, panic |-> "crash"]
Azure == [multi |-> TRUE, paged |-> TRUE, skips |-> TRUE, capped |-> FALSE, panic |-> "crash"]
Gcp == [multi |-> TRUE, paged |-> TRUE, skips |-> FALSE, capped |-> TRUE, panic |-> "ignored"]
Single == [multi |-> FALSE, paged |-> FALSE, skips |-> FALSE, capped |-> FALSE, panic |-> "error"]
Alibaba == Single
DigitalOcean == Single
Ibm == Single
Oracle == Single

Shapes == {Aws, Azure, Gcp, Alibaba, DigitalOcean, Ibm, Oracle}

PageIds == (1..MaxStreams) \X (1..MaxPages)

IdleStore == [at |-> "read", sent |-> 0, error |-> ""]
OpenPipe == [reader |-> "open", writer |-> "open"]
IdleNorm == [at |-> "reading", got |-> 0]

FetchTypeOK ==
  /\ shape \in Shapes /\ streams \in 1..MaxStreams
  /\ at \in {"idle", "request", "copy", "finish", "ok", "rejected", "failed"}
  /\ page \in PageIds
  /\ store \in [at : {"read", "offer", "write", "done", "failed"}, sent : 0..Chunks,
                error : {"", "body", "storage", "normalizer"}]
  /\ pipe \in [reader : {"open", "closed", "error"}, writer : {"open", "closed", "error"}]
  /\ norm \in [at : {"reading", "ok", "bad", "panic"}, got : 0..Chunks]
  /\ objects \in [PageIds -> {"none", "truncated", "whole"}]
  /\ {asked, panicked, used, sink} \subseteq SUBSET PageIds

FetchInit ==
  /\ shape = Single /\ streams = 1
  /\ at = "idle" /\ page = <<1, 1>>
  /\ store = IdleStore /\ pipe = OpenPipe /\ norm = IdleNorm
  /\ objects = [p \in PageIds |-> "none"]
  /\ asked = {} /\ panicked = {} /\ used = {} /\ sink = {}

copyVars == <<store, pipe, norm, objects, panicked, sink>>
streamVars == <<shape, streams>>

-----------------------------------------------------------------------------
(* The loop over streams and pages.                                         *)

\* The job calls Fetch of an adapter.
FetchCalled ==
  /\ at = "idle"
  /\ \E s \in Shapes :
       /\ shape' = s
       /\ streams' \in IF s.multi THEN 1..MaxStreams ELSE {1}
  /\ at' = "request"
  /\ UNCHANGED <<copyVars, page, asked, used>>

NextStream == IF page[1] < streams THEN at' = "request" /\ page' = <<page[1] + 1, 1>>
              ELSE at' = "finish" /\ UNCHANGED page

\* A mutant: a failed page is passed over, whatever the adapter.
PageSkipped == NextStream

\* A page that cannot be fetched, stored or normalized ends the fetch, or
\* only its stream when there are others.
PageFails == IF shape.skips /\ streams > 1 THEN NextStream
             ELSE at' = "failed" /\ UNCHANGED page

\* GCP's cap is over all endpoints: the remaining ones break too.
Capped == shape.capped /\ Cardinality(asked) >= PageCap

StopAtCap ==
  /\ at = "request" /\ Capped
  /\ NextStream
  /\ UNCHANGED <<streamVars, copyVars, asked, used>>

\* limiter.Wait: the context is done.
LimiterFails ==
  /\ at = "request" /\ ~Capped
  /\ at' = "failed"
  /\ UNCHANGED <<streamVars, copyVars, page, asked, used>>

RequestFails ==
  /\ at = "request" /\ ~Capped
  /\ asked' = asked \cup {page}
  /\ PageFails
  /\ UNCHANGED <<streamVars, copyVars, used>>

RequestPage ==
  /\ at = "request" /\ ~Capped
  /\ asked' = asked \cup {page}
  /\ at' = "copy"
  /\ store' = IdleStore /\ pipe' = OpenPipe /\ norm' = IdleNorm
  /\ UNCHANGED <<streamVars, page, objects, panicked, used, sink>>

\* A mutant: the result of the storage goroutine is not waited for.
PageNormalized == norm.at = "ok" \/ (norm.at = "panic" /\ shape.panic = "ignored")

\* g.Wait has no error.
PageGood == /\ store.at = "done"
            /\ norm.at = "ok" \/ (norm.at = "panic" /\ shape.panic = "ignored")

JoinGoroutines ==
  /\ at = "copy"
  /\ store.at \in {"done", "failed"} /\ norm.at # "reading"
  /\ IF PageGood
     THEN /\ used' = IF norm.at = "ok" THEN used \cup {page} ELSE used
          /\ \/ NextStream
             \/ \* the page names another one
                /\ shape.paged /\ norm.at = "ok" /\ page[2] < MaxPages
                /\ at' = "request" /\ page' = <<page[1], page[2] + 1>>
     ELSE PageFails /\ UNCHANGED used
  /\ UNCHANGED <<streamVars, copyVars, asked>>

\* The quarantine is flushed (its error is ignored) and the observations of
\* other categories are dropped; Job.Fetch compares what is left.
Finish ==
  /\ at = "finish"
  /\ \E kept \in SUBSET used :
       LET unmapped == Cardinality(sink)
           inScope == unmapped + Cardinality(kept)
       IN at' = IF 100 * unmapped > MaxUnmapped * inScope THEN "rejected" ELSE "ok"
  /\ UNCHANGED <<streamVars, copyVars, page, asked, used>>

-----------------------------------------------------------------------------
(* The storage goroutine: io.Copy reads the TeeReader, which writes what it *)
(* has read from the body to the pipe before it hands it over.              *)

copying(step) == at = "copy" /\ store.at = step

loopVars == <<streamVars, at, page, asked, used>>

ReadBody ==
  /\ copying("read") /\ store.sent < Chunks
  /\ store' = [store EXCEPT !.at = "offer"]
  /\ UNCHANGED <<loopVars, pipe, norm, objects, panicked, sink>>

\* WriteStream fails: GCS may keep what was copied so far as an object, the
\* memory storage keeps nothing, and the normalizer's next read gets the error.
StoreFails(error) ==
  /\ store' = [store EXCEPT !.at = "failed", !.error = error]
  /\ pipe' = [pipe EXCEPT !.writer = "error"]
  /\ \E left \in {"none", "truncated"} : objects' = [objects EXCEPT ![page] = left]
  /\ UNCHANGED <<loopVars, norm, panicked, sink>>

BodyFails == copying("read") /\ StoreFails("body")
WriteFails == copying("write") /\ StoreFails("storage")

\* The normalizer is through with the page: IgnoreErrorWriter hides the
\* closed pipe from the copy.
ChunkIgnored ==
  /\ copying("offer") /\ pipe.reader = "closed"
  /\ store' = [store EXCEPT !.at = "write"]
  /\ UNCHANGED <<loopVars, pipe, norm, objects, panicked, sink>>

\* The normalizer closed its end with an error, and any other error than
\* ErrClosedPipe passes through IgnoreErrorWriter.
ChunkRefused == copying("offer") /\ pipe.reader = "error" /\ StoreFails("normalizer")

WriteChunk ==
  /\ copying("write")
  /\ store' = [store EXCEPT !.at = "read", !.sent = @ + 1]
  /\ UNCHANGED <<loopVars, pipe, norm, objects, panicked, sink>>

\* The end of the body: the object is committed, and only then pw is closed.
Commit ==
  /\ copying("read") /\ store.sent = Chunks
  /\ store' = [store EXCEPT !.at = "done"]
  /\ objects' = [objects EXCEPT ![page] = "whole"]
  /\ pipe' = [pipe EXCEPT !.writer = "closed"]
  /\ UNCHANGED <<loopVars, norm, panicked, sink>>

CommitFails == copying("read") /\ store.sent = Chunks /\ StoreFails("storage")

-----------------------------------------------------------------------------
(* The normalizer goroutine.                                                *)

normalizing == at = "copy" /\ norm.at = "reading"

\* A read takes the chunk the TeeReader is offering; an item of it may be
\* recorded in the sink.
TakeChunk ==
  /\ normalizing /\ copying("offer")
  /\ norm' = [norm EXCEPT !.got = @ + 1]
  /\ store' = [store EXCEPT !.at = "write"]
  /\ \E unmapped \in {{}, {page}} : sink' = sink \cup unmapped
  /\ UNCHANGED <<loopVars, pipe, objects, panicked>>

\* A mutant: the normalizer leaves its end of the pipe open.
NormEndsOpen(result, reader) ==
  /\ norm' = [norm EXCEPT !.at = result]
  /\ panicked' = IF result = "panic" THEN panicked \cup {page} ELSE panicked
  /\ UNCHANGED <<loopVars, pipe, store, objects, sink>>

NormEnds(result, reader) ==
  /\ norm' = [norm EXCEPT !.at = result]
  /\ pipe' = [pipe EXCEPT !.reader = reader]
  /\ panicked' = IF result = "panic" THEN panicked \cup {page} ELSE panicked
  /\ UNCHANGED <<loopVars, store, objects, sink>>

\* The document is complete, with or without the end of the stream.
NormDone == normalizing /\ norm.got > 0 /\ NormEnds("ok", "closed")

NormFails == normalizing /\ (norm.got > 0 \/ pipe.writer = "error") /\ NormEnds("bad", "error")

NormPanics ==
  /\ normalizing /\ norm.got > 0 /\ shape.panic # "crash"
  /\ NormEnds("panic", "error")

-----------------------------------------------------------------------------

StoreStep == ReadBody \/ BodyFails \/ WriteFails \/ ChunkIgnored \/ ChunkRefused
             \/ WriteChunk \/ Commit \/ CommitFails

\* What is left to do when every chunk that comes has been taken.
NormStep == NormDone \/ NormFails \/ NormPanics

LoopStep == StopAtCap \/ LimiterFails \/ RequestFails \/ RequestPage \/ JoinGoroutines \/ Finish

FetchNext == FetchCalled \/ LoopStep \/ StoreStep \/ TakeChunk \/ NormStep

\* The goroutines run; a normalizer that is not offered anything more ends,
\* because pw is closed.
FetchFairness ==
  /\ WF_fetchVars(LoopStep) /\ WF_fetchVars(StoreStep) /\ WF_fetchVars(TakeChunk)
  /\ WF_fetchVars(pipe.writer # "open" /\ NormStep)

FetchSpec == FetchInit /\ [][FetchNext]_fetchVars /\ FetchFairness

-----------------------------------------------------------------------------
(* Properties.                                                              *)

\* No price is taken from a page whose raw response is not in storage as a
\* whole: the object is committed before the pages are joined.
RawBeforePrices == \A p \in used : objects[p] = "whole"

\* A successful fetch has used every page it asked for, unless its adapter
\* skips failed regions, or GCP's normalizer panicked.
PagesLostOnlyBySkipping ==
  at \in {"ok", "rejected"} => \/ shape.skips /\ streams > 1
                               \/ asked \ used \subseteq panicked /\ shape.panic = "ignored"
                               \/ asked = used

\* The two ends of the pipe never wait for each other forever: every fetch
\* ends, whichever goroutine stops first.
FetchEnds == at = "request" ~> at \in {"ok", "rejected", "failed"}

\* "Must use parent ctx, not gctx, to ensure durability if normalize fails"
\* (gcp/adapter.go:197): a response that could be read and stored is stored
\* even when it cannot be normalized.
RawKept == store.error # "normalizer"
=============================================================================
