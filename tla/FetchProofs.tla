------------------------------ MODULE FetchProofs -----------------------------
(***************************************************************************)
(* What a fetch leaves behind, for every number of streams, pages and      *)
(* chunks and whatever the pages hold: the two goroutines of a page, the   *)
(* loop over the pages, and the normalizers, whose lists of rules are      *)
(* proved to come to nested conditions before what they keep, drop and     *)
(* quarantine is.                                                          *)
(*                                                                         *)
(* At the end, the components of AccessProofs, of ServingProofs and of     *)
(* this module run together: what each of them promises still holds.       *)
(***************************************************************************)
EXTENDS Services, AccessProofs, ServingProofs, WellFoundedInduction, TLAPS

\* A fetch goes through the pages in this order.
Before(p, q) == p[1] < q[1] \/ (p[1] = q[1] /\ p[2] < q[2])

\* The normalizer has not taken more chunks than were offered to it.
ChunksCounted ==
  /\ store.at \in {"offer", "write"} => store.sent < Chunks
  /\ store.at \in {"read", "offer"} => norm.got <= store.sent
  /\ store.at = "write" => norm.got <= store.sent + 1

\* The current page is none of those that are used already, so that writing its
\* object disturbs none of theirs.
UsedAreBefore == at \in {"request", "copy"} => \A p \in used : Before(p, page)

\* What the two goroutines of the current page have come to.
PageSettled ==
  at = "copy" => /\ page \in asked
                 /\ store.at = "done" => objects[page] = "whole"
                 /\ norm.at = "panic" => page \in panicked

\* The pages whose normalizer may panic without a consequence.
Ignored == IF shape.panic = "ignored" THEN panicked ELSE {}
Current == IF at = "copy" THEN {page} ELSE {}

\* A page that was asked for is used, or being copied, or its loss is one of
\* the two that the adapters allow; unless the fetch has failed.
PagesAccounted ==
  /\ used \subseteq asked
  /\ at = "idle" => asked = {}
  /\ \/ shape.skips /\ streams > 1
     \/ at = "failed"
     \/ asked \subseteq used \cup Current \cup Ignored

FetchInv == FetchTypeOK /\ ChunksCounted /\ UsedAreBefore /\ PageSettled /\ RawBeforePrices
            /\ PagesAccounted

Stores == [at : {"read", "offer", "write", "done", "failed"}, sent : 0..Chunks,
           error : {"", "body", "storage", "normalizer"}]
Pipes == [reader : {"open", "closed", "error"}, writer : {"open", "closed", "error"}]
Norms == [at : {"reading", "ok", "bad", "panic"}, got : 0..Chunks]

LEMMA FetchNumbers ==
  /\ MaxStreams \in Nat \ {0} /\ MaxPages \in Nat \ {0} /\ Chunks \in Nat \ {0}
  /\ PageCap \in Nat \ {0}
BY FetchAssumption

LEMMA FreshCopy ==
  /\ IdleStore \in Stores /\ OpenPipe \in Pipes /\ IdleNorm \in Norms
  /\ IdleStore.at = "read" /\ IdleStore.sent = 0 /\ IdleNorm.at = "reading" /\ IdleNorm.got = 0
BY FetchNumbers DEF IdleStore, OpenPipe, IdleNorm, Stores, Pipes, Norms

LEMMA FetchInitial ==
  ASSUME FetchInit
  PROVE  FetchInv
<1>1. IdleStore \in Stores /\ OpenPipe \in Pipes /\ IdleNorm \in Norms
  BY FreshCopy
<1>2. <<1, 1>> \in PageIds /\ 1 \in 1..MaxStreams
  BY FetchNumbers DEF PageIds
<1>3. Single \in Shapes
  BY DEF Shapes, Alibaba
<1>4. /\ asked \in SUBSET PageIds /\ panicked \in SUBSET PageIds /\ used \in SUBSET PageIds
      /\ sink \in SUBSET PageIds /\ objects \in [PageIds -> {"none", "truncated", "whole"}]
  BY DEF FetchInit
<1>5. shape \in Shapes /\ streams \in 1..MaxStreams /\ at = "idle" /\ page \in PageIds
      /\ store \in Stores /\ pipe \in Pipes /\ norm \in Norms
  BY <1>1, <1>2, <1>3 DEF FetchInit
<1>6. FetchTypeOK
  BY <1>4, <1>5 DEF FetchTypeOK, Stores, Pipes, Norms
<1>7. ChunksCounted
  <2>1. store.at = "read" /\ store.sent = 0 /\ norm.got = 0
    BY FreshCopy DEF FetchInit
  <2> QED
    BY <2>1 DEF ChunksCounted
<1> QED
  BY <1>6, <1>7 DEF FetchInit, FetchInv, UsedAreBefore, PageSettled, RawBeforePrices, PagesAccounted

-----------------------------------------------------------------------------
(* The loop over streams and pages.                                         *)

\* The next stream begins after the page at hand.
LEMMA NextStreamIsLater ==
  ASSUME FetchTypeOK, NextStream
  PROVE  /\ page' \in PageIds
         /\ at' \in {"request", "finish"}
         /\ at' = "request" => Before(page, page')
                               /\ \A p \in PageIds : Before(p, page) => Before(p, page')
<1>1. page \in (1..MaxStreams) \X (1..MaxPages) /\ streams \in 1..MaxStreams
      /\ MaxStreams \in Nat /\ MaxPages \in Nat \ {0}
  BY FetchNumbers DEF FetchTypeOK, PageIds
<1>2. CASE page[1] < streams
  <2>1. at' = "request" /\ page' = <<page[1] + 1, 1>>
    BY <1>2 DEF NextStream
  <2>2. page' \in PageIds
    BY <1>1, <1>2, <2>1 DEF PageIds
  <2>3. Before(page, page') /\ \A p \in PageIds : Before(p, page) => Before(p, page')
    BY <1>1, <2>1 DEF Before, PageIds
  <2> QED
    BY <2>1, <2>2, <2>3
<1>3. CASE ~(page[1] < streams)
  BY <1>1, <1>3 DEF NextStream, PageIds
<1> QED
  BY <1>2, <1>3

\* A failed page ends the fetch, or it is skipped.
LEMMA PageFailsTo ==
  ASSUME FetchTypeOK, PageFails
  PROVE  \/ at' = "failed" /\ page' = page
         \/ NextStream /\ shape.skips /\ streams > 1
BY DEF PageFails

LEMMA CallKeeps ==
  ASSUME FetchInv, FetchCalled
  PROVE  FetchInv'
<1>0. FetchTypeOK /\ at = "idle" /\ asked = {} /\ used = {}
  BY DEF FetchInv, FetchCalled, PagesAccounted
<1>1. /\ store' = store /\ pipe' = pipe /\ norm' = norm /\ objects' = objects
      /\ panicked' = panicked /\ sink' = sink /\ page' = page /\ asked' = asked /\ used' = used
      /\ at' = "request"
  BY DEF FetchCalled, copyVars
<1>2. shape' \in Shapes /\ streams' \in 1..MaxStreams
  <2>1. 1 \in 1..MaxStreams
    BY FetchNumbers
  <2> QED
    BY <2>1 DEF FetchCalled
<1>3. FetchTypeOK'
  BY <1>0, <1>1, <1>2 DEF FetchTypeOK
<1> QED
  BY <1>0, <1>1, <1>3 DEF FetchInv, ChunksCounted, UsedAreBefore, PageSettled, RawBeforePrices, PagesAccounted

\* The current page gives way to a later one, or to none.
LEMMA MovingOnKeeps ==
  ASSUME FetchInv, at \in {"request", "copy", "finish"},
         UNCHANGED <<streamVars, copyVars>>,
         page' \in PageIds, at' \in {"request", "finish", "ok", "rejected", "failed"},
         asked' \in SUBSET PageIds, used' \in SUBSET PageIds, used' \subseteq asked',
         at' = "request" => \A p \in used' : Before(p, page'),
         \A p \in used' : objects[p] = "whole",
         \/ shape.skips /\ streams > 1
         \/ at' = "failed"
         \/ asked' \subseteq used' \cup Ignored
  PROVE  FetchInv'
<1>1. /\ store' = store /\ pipe' = pipe /\ norm' = norm /\ objects' = objects
      /\ panicked' = panicked /\ sink' = sink /\ shape' = shape /\ streams' = streams
  BY DEF copyVars, streamVars
<1>2. FetchTypeOK'
  <2>1. /\ store' \in Stores /\ pipe' \in Pipes /\ norm' \in Norms
        /\ panicked' \in SUBSET PageIds /\ sink' \in SUBSET PageIds
        /\ shape' \in Shapes /\ streams' \in 1..MaxStreams
        /\ objects' \in [PageIds -> {"none", "truncated", "whole"}]
    BY <1>1 DEF FetchInv, FetchTypeOK, Stores, Pipes, Norms
  <2>2. at' \in {"idle", "request", "copy", "finish", "ok", "rejected", "failed"}
    OBVIOUS
  <2> QED
    BY <2>1, <2>2 DEF FetchTypeOK, Stores, Pipes, Norms
<1>3. ChunksCounted'
  BY <1>1 DEF FetchInv, ChunksCounted
<1>4. UsedAreBefore' /\ PageSettled' /\ RawBeforePrices'
  BY <1>1 DEF UsedAreBefore, PageSettled, RawBeforePrices
<1>5. PagesAccounted'
  BY <1>1 DEF PagesAccounted, Ignored
<1> QED
  BY <1>2, <1>3, <1>4, <1>5 DEF FetchInv

LEMMA LoopKeeps ==
  ASSUME FetchInv, LoopStep
  PROVE  FetchInv'
<1>0. FetchTypeOK
  BY DEF FetchInv
<1>1. /\ asked \in SUBSET PageIds /\ used \in SUBSET PageIds /\ used \subseteq asked
      /\ page \in PageIds /\ \A p \in used : objects[p] = "whole"
      /\ \/ shape.skips /\ streams > 1
         \/ at = "failed"
         \/ asked \subseteq used \cup Current \cup Ignored
      /\ at \in {"request", "copy"} => \A p \in used : Before(p, page)
  BY <1>0 DEF FetchInv, FetchTypeOK, PagesAccounted, RawBeforePrices, UsedAreBefore
<1>2. CASE StopAtCap
  <2>1. at = "request" /\ asked' = asked /\ used' = used /\ UNCHANGED <<streamVars, copyVars>> /\ NextStream
    BY <1>2 DEF StopAtCap
  <2>2. Current = {}
    BY <2>1 DEF Current
  <2>3. at' = "request" => \A p \in used' : Before(p, page')
    BY <1>0, <1>1, <2>1, NextStreamIsLater
  <2>4. page' \in PageIds /\ at' \in {"request", "finish"}
    BY <1>0, <2>1, NextStreamIsLater
  <2> QED
    BY <1>1, <2>1, <2>2, <2>3, <2>4, MovingOnKeeps
<1>3. CASE LimiterFails
  BY <1>1, <1>3, MovingOnKeeps DEF LimiterFails
<1>4. CASE RequestFails
  <2>1. at = "request" /\ asked' = asked \cup {page} /\ used' = used
        /\ UNCHANGED <<streamVars, copyVars>> /\ PageFails
    BY <1>4 DEF RequestFails
  <2>2. CASE at' = "failed" /\ page' = page
    BY <1>1, <2>1, <2>2, MovingOnKeeps
  <2>3. CASE NextStream /\ shape.skips /\ streams > 1
    <3>1. at' = "request" => \A p \in used' : Before(p, page')
      BY <1>0, <1>1, <2>1, <2>3, NextStreamIsLater
    <3>2. page' \in PageIds /\ at' \in {"request", "finish"}
      BY <1>0, <2>3, NextStreamIsLater
    <3> QED
      BY <1>1, <2>1, <2>3, <3>1, <3>2, MovingOnKeeps
  <2> QED
    BY <1>0, <2>1, <2>2, <2>3, PageFailsTo
<1>5. CASE RequestPage
  <2>1. /\ at = "request" /\ asked' = asked \cup {page} /\ at' = "copy" /\ page' = page
        /\ store' = IdleStore /\ pipe' = OpenPipe /\ norm' = IdleNorm
        /\ shape' = shape /\ streams' = streams /\ objects' = objects
        /\ panicked' = panicked /\ used' = used /\ sink' = sink
    BY <1>5 DEF RequestPage, streamVars
  <2>2. store' \in Stores /\ pipe' \in Pipes /\ norm' \in Norms
    BY <2>1, FreshCopy
  <2>3. asked' \in SUBSET PageIds
    BY <1>1, <2>1
  <2>4. FetchTypeOK'
    <3>1. at' \in {"idle", "request", "copy", "finish", "ok", "rejected", "failed"}
      BY <2>1
    <3>2. /\ panicked \in SUBSET PageIds /\ sink \in SUBSET PageIds
          /\ shape \in Shapes /\ streams \in 1..MaxStreams
          /\ objects \in [PageIds -> {"none", "truncated", "whole"}]
      BY <1>0 DEF FetchTypeOK
    <3>3. shape' \in Shapes /\ streams' \in 1..MaxStreams /\ page' \in PageIds
          /\ objects' \in [PageIds -> {"none", "truncated", "whole"}]
          /\ panicked' \in SUBSET PageIds /\ used' \in SUBSET PageIds /\ sink' \in SUBSET PageIds
      BY <1>1, <2>1, <3>2
    <3> QED
      BY <2>2, <2>3, <3>1, <3>3 DEF FetchTypeOK, Stores, Pipes, Norms
  <2>5. ChunksCounted'
    <3>1. store'.at = "read" /\ store'.sent = 0 /\ norm'.got = 0
      BY <2>1, FreshCopy
    <3> QED
      BY <3>1 DEF ChunksCounted
  <2>6. PageSettled'
    BY <2>1, FreshCopy DEF PageSettled
  <2>7. UsedAreBefore' /\ RawBeforePrices'
    BY <1>1, <2>1 DEF UsedAreBefore, RawBeforePrices
  <2>8. PagesAccounted'
    <3>1. Current = {} /\ Current' = {page} /\ Ignored' = Ignored
      BY <2>1 DEF Current, Ignored
    <3> QED
      BY <1>1, <2>1, <3>1 DEF PagesAccounted
  <2> QED
    BY <2>4, <2>5, <2>6, <2>7, <2>8 DEF FetchInv
<1>6. CASE JoinGoroutines
  <2>1. at = "copy" /\ asked' = asked /\ UNCHANGED <<streamVars, copyVars>>
        /\ page \in asked /\ Current = {page}
    BY <1>6 DEF JoinGoroutines, FetchInv, PageSettled, Current
  <2>2. CASE PageGood
    <3>1. used' = IF norm.at = "ok" THEN used \cup {page} ELSE used
      BY <1>6, <2>2 DEF JoinGoroutines
    <3>2. objects[page] = "whole"
      BY <2>1, <2>2 DEF PageGood, FetchInv, PageSettled
    <3>3. asked' \subseteq used' \cup Ignored \/ (shape.skips /\ streams > 1)
      <4>1. norm.at # "ok" => page \in Ignored
        BY <2>1, <2>2 DEF PageGood, FetchInv, PageSettled, Ignored
      <4> QED
        BY <1>1, <2>1, <3>1, <4>1
    <3>4. /\ page' \in PageIds /\ at' \in {"request", "finish"}
          /\ at' = "request" => Before(page, page')
                                /\ \A p \in PageIds : Before(p, page) => Before(p, page')
      <4>1. CASE NextStream
        BY <1>0, <4>1, NextStreamIsLater
      <4>2. CASE page[2] < MaxPages /\ at' = "request" /\ page' = <<page[1], page[2] + 1>>
        <5>1. page \in (1..MaxStreams) \X (1..MaxPages) /\ MaxPages \in Nat
          BY <1>1, FetchNumbers DEF PageIds
        <5>2. page' \in PageIds
          BY <4>2, <5>1 DEF PageIds
        <5>3. Before(page, page') /\ \A p \in PageIds : Before(p, page) => Before(p, page')
          BY <4>2, <5>1 DEF Before, PageIds
        <5> QED
          BY <4>2, <5>2, <5>3
      <4> QED
        BY <1>6, <2>2, <4>1, <4>2 DEF JoinGoroutines
    <3>5. at' = "request" => \A p \in used' : Before(p, page')
      BY <1>1, <2>1, <3>1, <3>4
    <3>6. used' \in SUBSET PageIds /\ used' \subseteq asked' /\ \A p \in used' : objects[p] = "whole"
      BY <1>1, <2>1, <3>1, <3>2
    <3> QED
      BY <1>1, <2>1, <3>3, <3>4, <3>5, <3>6, MovingOnKeeps
  <2>3. CASE ~PageGood
    <3>1. used' = used /\ PageFails
      BY <1>6, <2>3 DEF JoinGoroutines
    <3>2. CASE at' = "failed" /\ page' = page
      BY <1>1, <2>1, <3>1, <3>2, MovingOnKeeps
    <3>3. CASE NextStream /\ shape.skips /\ streams > 1
      <4>1. at' = "request" => \A p \in used' : Before(p, page')
        BY <1>0, <1>1, <2>1, <3>1, <3>3, NextStreamIsLater
      <4>2. page' \in PageIds /\ at' \in {"request", "finish"}
        BY <1>0, <3>3, NextStreamIsLater
      <4> QED
        BY <1>1, <2>1, <3>1, <3>3, <4>1, <4>2, MovingOnKeeps
    <3> QED
      BY <1>0, <3>1, <3>2, <3>3, PageFailsTo
  <2> QED
    BY <2>2, <2>3
<1>7. CASE Finish
  <2>1. at = "finish" /\ at' \in {"ok", "rejected"} /\ page' = page /\ asked' = asked /\ used' = used
        /\ UNCHANGED <<streamVars, copyVars>>
    BY <1>7 DEF Finish
  <2>2. Current = {}
    BY <2>1 DEF Current
  <2> QED
    BY <1>1, <2>1, <2>2, MovingOnKeeps
<1> QED
  BY <1>2, <1>3, <1>4, <1>5, <1>6, <1>7 DEF LoopStep

-----------------------------------------------------------------------------
(* The two goroutines of a page.                                            *)

LEMMA NumbersOfChunks ==
  ASSUME FetchInv
  PROVE  /\ store \in Stores /\ pipe \in Pipes /\ norm \in Norms
         /\ objects \in [PageIds -> {"none", "truncated", "whole"}] /\ page \in PageIds
BY DEF FetchInv, FetchTypeOK, Stores, Pipes, Norms

\* While a page is copied no other page's object changes.
LEMMA CopyingKeeps ==
  ASSUME FetchInv, at = "copy", UNCHANGED loopVars,
         store' \in Stores, pipe' \in Pipes, norm' \in Norms, ChunksCounted',
         objects' \in [PageIds -> {"none", "truncated", "whole"}],
         \A p \in PageIds : p # page => objects'[p] = objects[p],
         store'.at = "done" => objects'[page] = "whole",
         panicked' \in SUBSET PageIds, panicked \subseteq panicked',
         norm'.at = "panic" => page \in panicked',
         sink' \in SUBSET PageIds
  PROVE  FetchInv'
<1>1. shape' = shape /\ streams' = streams /\ at' = at /\ page' = page /\ asked' = asked /\ used' = used
  BY DEF loopVars, streamVars
<1>2. FetchTypeOK'
  BY <1>1 DEF FetchInv, FetchTypeOK, Stores, Pipes, Norms
<1>3. page \notin used
  <2>1. page \in (1..MaxStreams) \X (1..MaxPages) /\ MaxStreams \in Nat /\ MaxPages \in Nat
    BY FetchNumbers DEF FetchInv, FetchTypeOK, PageIds
  <2>2. ~Before(page, page)
    BY <2>1 DEF Before
  <2> QED
    BY <2>2 DEF FetchInv, UsedAreBefore
<1>4. UsedAreBefore' /\ PageSettled'
  BY <1>1 DEF FetchInv, UsedAreBefore, PageSettled
<1>5. RawBeforePrices'
  BY <1>1, <1>3 DEF FetchInv, FetchTypeOK, RawBeforePrices
<1>6. PagesAccounted'
  BY <1>1 DEF FetchInv, PagesAccounted, Current, Ignored
<1> QED
  BY <1>2, <1>4, <1>5, <1>6 DEF FetchInv

LEMMA StoreFailsKeeps ==
  ASSUME FetchInv, at = "copy", NEW error \in {"body", "storage", "normalizer"}, StoreFails(error)
  PROVE  FetchInv'
<1>0. /\ store \in Stores /\ pipe \in Pipes /\ norm \in Norms
      /\ objects \in [PageIds -> {"none", "truncated", "whole"}] /\ page \in PageIds
  BY NumbersOfChunks
<1>1. /\ store' = [store EXCEPT !.at = "failed", !.error = error]
      /\ pipe' = [pipe EXCEPT !.writer = "error"]
      /\ UNCHANGED loopVars /\ norm' = norm /\ panicked' = panicked /\ sink' = sink
  BY DEF StoreFails
<1>2. store' \in Stores /\ store'.at = "failed" /\ pipe' \in Pipes
  BY <1>0, <1>1 DEF Stores, Pipes
<1>3. PICK left \in {"none", "truncated"} : objects' = [objects EXCEPT ![page] = left]
  BY DEF StoreFails
<1>4. objects' \in [PageIds -> {"none", "truncated", "whole"}]
      /\ \A p \in PageIds : p # page => objects'[p] = objects[p]
  BY <1>0, <1>3
<1>5. ChunksCounted'
  BY <1>2 DEF ChunksCounted
<1>6. panicked \in SUBSET PageIds /\ sink \in SUBSET PageIds /\ (norm.at = "panic" => page \in panicked)
  BY DEF FetchInv, FetchTypeOK, PageSettled
<1> QED
  BY <1>0, <1>1, <1>2, <1>4, <1>5, <1>6, CopyingKeeps

LEMMA StoreStepKeeps ==
  ASSUME FetchInv, StoreStep
  PROVE  FetchInv'
<1>0. /\ store \in Stores /\ pipe \in Pipes /\ norm \in Norms
      /\ objects \in [PageIds -> {"none", "truncated", "whole"}] /\ page \in PageIds
      /\ Chunks \in Nat /\ ChunksCounted
      /\ panicked \in SUBSET PageIds /\ sink \in SUBSET PageIds
  BY NumbersOfChunks, FetchNumbers DEF FetchInv, FetchTypeOK
<1>1. at = "copy"
  BY DEF StoreStep, ReadBody, BodyFails, WriteFails, ChunkIgnored, ChunkRefused, WriteChunk, Commit,
         CommitFails, copying
<1>2. norm.at = "panic" => page \in panicked
  BY <1>1 DEF FetchInv, PageSettled
<1>3. CASE BodyFails \/ WriteFails \/ ChunkRefused \/ CommitFails
  BY <1>1, <1>3, StoreFailsKeeps DEF BodyFails, WriteFails, ChunkRefused, CommitFails
<1>4. CASE ReadBody \/ ChunkIgnored \/ WriteChunk
  <2>1. UNCHANGED loopVars /\ pipe' = pipe /\ norm' = norm /\ objects' = objects
        /\ panicked' = panicked /\ sink' = sink
    BY <1>4 DEF ReadBody, ChunkIgnored, WriteChunk
  <2>2. store' \in Stores /\ store'.at # "done" /\ ChunksCounted'
    <3>1. CASE ReadBody
      <4>1. store' = [store EXCEPT !.at = "offer"] /\ store.at = "read" /\ store.sent < Chunks
        BY <3>1 DEF ReadBody, copying
      <4>2. store' \in Stores /\ store'.at = "offer" /\ store'.sent = store.sent
        BY <1>0, <4>1 DEF Stores
      <4> QED
        BY <1>0, <2>1, <4>1, <4>2 DEF ChunksCounted
    <3>2. CASE ChunkIgnored
      <4>1. store' = [store EXCEPT !.at = "write"] /\ store.at = "offer"
        BY <3>2 DEF ChunkIgnored, copying
      <4>2. store' \in Stores /\ store'.at = "write" /\ store'.sent = store.sent
        BY <1>0, <4>1 DEF Stores
      <4> QED
        <5>1. store.sent \in 0..Chunks /\ store.sent < Chunks /\ norm.got \in 0..Chunks
              /\ norm.got <= store.sent
          BY <1>0, <4>1 DEF ChunksCounted, Stores, Norms
        <5>2. store'.sent < Chunks /\ norm'.got <= store'.sent + 1
          BY <2>1, <4>2, <5>1
        <5>3. ChunksCounted'
          BY <4>2, <5>2 DEF ChunksCounted
        <5> QED
          BY <4>2, <5>3
    <3>3. CASE WriteChunk
      <4>1. store' = [store EXCEPT !.at = "read", !.sent = store.sent + 1] /\ store.at = "write"
        BY <3>3 DEF WriteChunk, copying
      <4>2. store.sent \in 0..Chunks /\ store.sent < Chunks /\ norm.got <= store.sent + 1
        BY <1>0, <4>1 DEF ChunksCounted, Stores
      <4>3. store' \in Stores /\ store'.at = "read" /\ store'.sent = store.sent + 1
        <5> DEFINE n == store.sent + 1
        <5>1. n \in 0..Chunks
          BY <1>0, <4>2
        <5> HIDE DEF n
        <5>2. store' = [store EXCEPT !.at = "read", !.sent = n]
          BY <4>1 DEF n
        <5>3. store' \in Stores /\ store'.at = "read" /\ store'.sent = n
          BY <1>0, <5>1, <5>2 DEF Stores
        <5> QED
          BY <5>3 DEF n
      <4> QED
        BY <2>1, <4>2, <4>3 DEF ChunksCounted
    <3> QED
      BY <1>4, <3>1, <3>2, <3>3
  <2> QED
    BY <1>0, <1>1, <1>2, <2>1, <2>2, CopyingKeeps
<1>5. CASE Commit
  <2>1. /\ store' = [store EXCEPT !.at = "done"] /\ objects' = [objects EXCEPT ![page] = "whole"]
        /\ pipe' = [pipe EXCEPT !.writer = "closed"]
        /\ UNCHANGED loopVars /\ norm' = norm /\ panicked' = panicked /\ sink' = sink
    BY <1>5 DEF Commit
  <2>2. store' \in Stores /\ store'.at = "done" /\ pipe' \in Pipes
    BY <1>0, <2>1 DEF Stores, Pipes
  <2>3. objects' \in [PageIds -> {"none", "truncated", "whole"}] /\ objects'[page] = "whole"
        /\ \A p \in PageIds : p # page => objects'[p] = objects[p]
    BY <1>0, <2>1
  <2>4. ChunksCounted'
    BY <2>2 DEF ChunksCounted
  <2> QED
    BY <1>0, <1>1, <1>2, <2>1, <2>2, <2>3, <2>4, CopyingKeeps
<1> QED
  BY <1>3, <1>4, <1>5 DEF StoreStep

LEMMA NormalizerKeeps ==
  ASSUME FetchInv, TakeChunk \/ NormStep
  PROVE  FetchInv'
<1>0. /\ store \in Stores /\ pipe \in Pipes /\ norm \in Norms
      /\ objects \in [PageIds -> {"none", "truncated", "whole"}] /\ page \in PageIds
      /\ Chunks \in Nat /\ ChunksCounted
      /\ panicked \in SUBSET PageIds /\ sink \in SUBSET PageIds
  BY NumbersOfChunks, FetchNumbers DEF FetchInv, FetchTypeOK
<1>1. at = "copy" /\ norm.at = "reading"
  BY DEF TakeChunk, NormStep, NormDone, NormFails, NormPanics, normalizing
<1>2. store.at = "done" => objects[page] = "whole"
  BY <1>1 DEF FetchInv, PageSettled
<1>3. CASE TakeChunk
  <2>1. /\ norm' = [norm EXCEPT !.got = norm.got + 1] /\ store' = [store EXCEPT !.at = "write"]
        /\ store.at = "offer" /\ UNCHANGED loopVars /\ pipe' = pipe /\ objects' = objects
        /\ panicked' = panicked
    BY <1>3 DEF TakeChunk, copying
  <2>2. sink' \in SUBSET PageIds
    BY <1>0, <1>3 DEF TakeChunk
  <2>3. store.sent \in 0..Chunks /\ store.sent < Chunks /\ norm.got <= store.sent /\ norm.got \in 0..Chunks
    BY <1>0, <2>1 DEF ChunksCounted, Stores, Norms
  <2>4. norm' \in Norms /\ norm'.at = "reading" /\ norm'.got = norm.got + 1
    BY <1>0, <1>1, <2>1, <2>3 DEF Norms
  <2>5. store' \in Stores /\ store'.at = "write" /\ store'.sent = store.sent
    BY <1>0, <2>1 DEF Stores
  <2>6. ChunksCounted'
    BY <2>3, <2>4, <2>5 DEF ChunksCounted
  <2> QED
    BY <1>0, <1>1, <2>1, <2>2, <2>4, <2>5, <2>6, CopyingKeeps
<1>4. CASE NormStep
  <2>1. PICK result \in {"ok", "bad", "panic"}, end \in {"closed", "error"} : NormEnds(result, end)
    BY <1>4 DEF NormStep, NormDone, NormFails, NormPanics
  <2>2. /\ norm' = [norm EXCEPT !.at = result] /\ pipe' = [pipe EXCEPT !.reader = end]
        /\ panicked' = IF result = "panic" THEN panicked \cup {page} ELSE panicked
        /\ UNCHANGED loopVars /\ store' = store /\ objects' = objects /\ sink' = sink
    BY <2>1 DEF NormEnds
  <2>3. norm' \in Norms /\ norm'.at = result /\ norm'.got = norm.got /\ pipe' \in Pipes
    BY <1>0, <2>2 DEF Norms, Pipes
  <2>4. ChunksCounted'
    BY <1>0, <2>2, <2>3 DEF ChunksCounted
  <2>5. panicked' \in SUBSET PageIds /\ panicked \subseteq panicked' /\ (norm'.at = "panic" => page \in panicked')
    BY <1>0, <2>2, <2>3
  <2> QED
    BY <1>0, <1>1, <1>2, <2>2, <2>3, <2>4, <2>5, CopyingKeeps
<1> QED
  BY <1>3, <1>4

LEMMA FetchInvariant == FetchSpec => []FetchInv
<1>1. FetchInit => FetchInv
  BY FetchInitial
<1>2. FetchInv /\ [FetchNext]_fetchVars => FetchInv'
  <2>1. ASSUME FetchInv, FetchNext PROVE FetchInv'
    BY <2>1, CallKeeps, LoopKeeps, StoreStepKeeps, NormalizerKeeps DEF FetchNext
  <2>2. ASSUME FetchInv, UNCHANGED fetchVars PROVE FetchInv'
    <3>1. FetchTypeOK'
      BY <2>2, Zenon DEF fetchVars, FetchInv, FetchTypeOK
    <3>2. ChunksCounted' /\ UsedAreBefore' /\ PageSettled' /\ RawBeforePrices' /\ PagesAccounted'
      BY <2>2, Zenon DEF fetchVars, FetchInv, ChunksCounted, UsedAreBefore, PageSettled,
                  RawBeforePrices, PagesAccounted, Current, Ignored, Before
    <3> QED
      BY <3>1, <3>2 DEF FetchInv
  <2> QED
    BY <2>1, <2>2
<1> QED
  BY <1>1, <1>2, PTL DEF FetchSpec

\* A fetch keeps its types.
THEOREM FetchTypesCorrect == FetchSpec => []FetchTypeOK
<1>1. FetchInv => FetchTypeOK
  BY DEF FetchInv
<1> QED
  BY <1>1, FetchInvariant, PTL

\* Of every page whose prices a fetch keeps, the raw answer is in storage as a
\* whole, for any number of streams, pages and chunks: whichever goroutine of a
\* page stops first, its prices are kept only after its object was committed
\* (internal/adapter/provider, internal/storage).
THEOREM RawComesFirst == FetchSpec => []RawBeforePrices
<1>1. FetchInv => RawBeforePrices
  BY DEF FetchInv
<1> QED
  BY <1>1, FetchInvariant, PTL

\* A fetch that succeeds has used every page it asked for, unless its adapter
\* skips failed regions or GCP's normalizer panicked: neither the loop over the
\* pages nor the pipe between the two goroutines of a page drops one.
THEOREM PagesAreAccountedFor == FetchSpec => []PagesLostOnlyBySkipping
<1>1. FetchInv => PagesLostOnlyBySkipping
  <2>1. SUFFICES ASSUME FetchInv, at \in {"ok", "rejected"}, ~(shape.skips /\ streams > 1)
                 PROVE  \/ asked \ used \subseteq panicked /\ shape.panic = "ignored"
                        \/ asked = used
    BY DEF PagesLostOnlyBySkipping
  <2>2. used \subseteq asked /\ asked \subseteq used \cup Ignored
    BY <2>1 DEF FetchInv, PagesAccounted, Current
  <2> QED
    BY <2>2 DEF Ignored
<1> QED
  BY <1>1, FetchInvariant, PTL

-----------------------------------------------------------------------------
(* Why a fetch ends: somebody can always go on, and nobody goes on forever. *)

\* An end of the pipe is open as long as its goroutine runs, and a normalizer
\* that still reads has taken every chunk that has passed it.
EndsAgree ==
  /\ norm.at = "reading" <=> pipe.reader = "open"
  /\ store.at \in {"done", "failed"} <=> pipe.writer # "open"
  /\ store.at = "failed" => pipe.writer = "error"
  /\ norm.at = "reading" => /\ store.at \in {"read", "offer"} => norm.got = store.sent
                            /\ store.at = "write" => norm.got = store.sent + 1
                            /\ store.at = "done" => norm.got = Chunks

\* While a page is copied, at least one of the two goroutines does not wait for
\* the other, or both are over: the storage reads or writes; or its chunk is
\* taken, or ignored or refused by a reader that is closed; or the normalizer has
\* all it will get.
GoroutinesGetOn ==
  at = "copy" =>
    \/ store.at \in {"read", "write"}
    \/ store.at = "offer" /\ (norm.at = "reading" \/ pipe.reader \in {"closed", "error"})
    \/ norm.at = "reading" /\ pipe.writer # "open" /\ (norm.got > 0 \/ pipe.writer = "error")
    \/ store.at \in {"done", "failed"} /\ norm.at # "reading"

\* What is left of the copy of a page.
StepsLeft == [read |-> 4, offer |-> 3, write |-> 2, done |-> 0, failed |-> 0]
ToDo == 3 * (Chunks - store.sent) + StepsLeft[store.at] + (IF norm.at = "reading" THEN 1 ELSE 0)

\* How far a fetch has come.
Stage(a) == CASE a = "idle" -> 0
              [] a \in {"request", "copy"} -> 1
              [] a = "finish" -> 2
              [] OTHER -> 3

\* A step leads to a later stage, or to a later page, or from the request of a
\* page to its copy, or leaves less of the copy to do.  There are finitely many of
\* each, so a fetch has an end.
GoesForward ==
  \/ Stage(at) < Stage(at')
  \/ Stage(at) = Stage(at') /\ Before(page, page')
  \/ page' = page /\ at = "request" /\ at' = "copy"
  \/ page' = page /\ at = "copy" /\ at' = "copy" /\ ToDo' \in Nat /\ ToDo' < ToDo

LEMMA StoreFailsEnds ==
  ASSUME FetchInv, EndsAgree, store.at \in {"read", "offer", "write"},
         NEW error \in {"body", "storage", "normalizer"}, StoreFails(error)
  PROVE  /\ EndsAgree' /\ store'.at = "failed" /\ store'.sent = store.sent
         /\ norm' = norm /\ at' = at /\ page' = page
<1>0. store \in Stores /\ pipe \in Pipes /\ norm \in Norms
  BY NumbersOfChunks
<1>1. /\ store' = [store EXCEPT !.at = "failed", !.error = error]
      /\ pipe' = [pipe EXCEPT !.writer = "error"] /\ norm' = norm /\ at' = at /\ page' = page
  BY DEF StoreFails, loopVars
<1>2. /\ store'.at = "failed" /\ store'.sent = store.sent
      /\ pipe'.writer = "error" /\ pipe'.reader = pipe.reader
  BY <1>0, <1>1 DEF Stores, Pipes
<1> QED
  BY <1>1, <1>2 DEF EndsAgree

\* A step of the storage goroutine.
LEMMA StoreStepEnds ==
  ASSUME FetchInv, EndsAgree, StoreStep
  PROVE  /\ EndsAgree' /\ at = "copy" /\ at' = at /\ page' = page /\ norm' = norm
         /\ \/ store.at = "read" /\ store'.at = "offer" /\ store'.sent = store.sent
            \/ store.at = "offer" /\ store'.at = "write" /\ store'.sent = store.sent
            \/ /\ store.at = "write" /\ store'.at = "read" /\ store'.sent = store.sent + 1
               /\ store.sent < Chunks
            \/ /\ store.at \in {"read", "offer", "write"} /\ store'.at \in {"done", "failed"}
               /\ store'.sent = store.sent
<1>0. store \in Stores /\ pipe \in Pipes /\ norm \in Norms /\ Chunks \in Nat /\ ChunksCounted
  BY NumbersOfChunks, FetchNumbers DEF FetchInv
<1>1. CASE BodyFails \/ WriteFails \/ ChunkRefused \/ CommitFails
  <2>1. PICK error \in {"body", "storage", "normalizer"} : StoreFails(error)
    BY <1>1 DEF BodyFails, WriteFails, ChunkRefused, CommitFails
  <2>2. at = "copy" /\ store.at \in {"read", "offer", "write"}
    BY <1>1 DEF BodyFails, WriteFails, ChunkRefused, CommitFails, copying
  <2> QED
    BY <2>1, <2>2, StoreFailsEnds
<1>2. CASE ReadBody
  <2>1. /\ store' = [store EXCEPT !.at = "offer"] /\ store.at = "read" /\ at = "copy"
        /\ pipe' = pipe /\ norm' = norm /\ at' = at /\ page' = page
    BY <1>2 DEF ReadBody, copying, loopVars
  <2>2. store'.at = "offer" /\ store'.sent = store.sent
    BY <1>0, <2>1 DEF Stores
  <2> QED
    BY <2>1, <2>2 DEF EndsAgree
<1>3. CASE ChunkIgnored
  <2>1. /\ store' = [store EXCEPT !.at = "write"] /\ store.at = "offer" /\ at = "copy"
        /\ pipe.reader = "closed" /\ pipe' = pipe /\ norm' = norm /\ at' = at /\ page' = page
    BY <1>3 DEF ChunkIgnored, copying, loopVars
  <2>2. store'.at = "write" /\ store'.sent = store.sent
    BY <1>0, <2>1 DEF Stores
  <2> QED
    BY <2>1, <2>2 DEF EndsAgree
<1>4. CASE WriteChunk
  <2>1. /\ store' = [store EXCEPT !.at = "read", !.sent = store.sent + 1] /\ store.at = "write"
        /\ at = "copy" /\ pipe' = pipe /\ norm' = norm /\ at' = at /\ page' = page
    BY <1>4 DEF WriteChunk, copying, loopVars
  <2>2. store'.at = "read" /\ store'.sent = store.sent + 1
    BY <1>0, <2>1 DEF Stores
  <2>3. store.sent < Chunks
    BY <1>0, <2>1 DEF ChunksCounted
  <2> QED
    BY <2>1, <2>2, <2>3 DEF EndsAgree
<1>5. CASE Commit
  <2>1. /\ store' = [store EXCEPT !.at = "done"] /\ store.at = "read" /\ store.sent = Chunks
        /\ pipe' = [pipe EXCEPT !.writer = "closed"]
        /\ at = "copy" /\ norm' = norm /\ at' = at /\ page' = page
    BY <1>5 DEF Commit, copying, loopVars
  <2>2. /\ store'.at = "done" /\ store'.sent = store.sent
        /\ pipe'.writer = "closed" /\ pipe'.reader = pipe.reader
    BY <1>0, <2>1 DEF Stores, Pipes
  <2> QED
    BY <2>1, <2>2 DEF EndsAgree
<1> QED
  BY <1>1, <1>2, <1>3, <1>4, <1>5 DEF StoreStep

\* A step of the normalizer goroutine.
LEMMA NormalizerEnds ==
  ASSUME FetchInv, EndsAgree, TakeChunk \/ NormStep
  PROVE  /\ EndsAgree' /\ at = "copy" /\ at' = at /\ page' = page
         /\ store'.sent = store.sent /\ norm.at = "reading"
         /\ \/ store.at = "offer" /\ store'.at = "write" /\ norm'.at = "reading"
            \/ store'.at = store.at /\ norm'.at # "reading"
<1>0. store \in Stores /\ pipe \in Pipes /\ norm \in Norms
  BY NumbersOfChunks
<1>1. CASE TakeChunk
  <2>1. /\ norm' = [norm EXCEPT !.got = norm.got + 1] /\ store' = [store EXCEPT !.at = "write"]
        /\ store.at = "offer" /\ norm.at = "reading" /\ at = "copy"
        /\ pipe' = pipe /\ at' = at /\ page' = page
    BY <1>1 DEF TakeChunk, copying, normalizing, loopVars
  <2>2. /\ norm'.at = "reading" /\ norm'.got = norm.got + 1
        /\ store'.at = "write" /\ store'.sent = store.sent
    BY <1>0, <2>1 DEF Stores, Norms
  <2> QED
    BY <2>1, <2>2 DEF EndsAgree
<1>2. CASE NormStep
  <2>1. PICK result \in {"ok", "bad", "panic"}, end \in {"closed", "error"} : NormEnds(result, end)
    BY <1>2 DEF NormStep, NormDone, NormFails, NormPanics
  <2>2. /\ norm' = [norm EXCEPT !.at = result] /\ pipe' = [pipe EXCEPT !.reader = end]
        /\ store' = store /\ at' = at /\ page' = page
    BY <2>1 DEF NormEnds, loopVars
  <2>3. norm'.at = result /\ pipe'.reader = end /\ pipe'.writer = pipe.writer
    BY <1>0, <2>2 DEF Norms, Pipes
  <2>4. at = "copy" /\ norm.at = "reading"
    BY <1>2 DEF NormStep, NormDone, NormFails, NormPanics, normalizing
  <2> QED
    BY <2>2, <2>3, <2>4 DEF EndsAgree
<1> QED
  BY <1>1, <1>2

\* A page begins with both ends open; the other steps of the loop change neither.
LEMMA LoopEnds ==
  ASSUME FetchInv, EndsAgree, FetchCalled \/ LoopStep
  PROVE  EndsAgree'
<1>1. CASE RequestPage
  <2>1. store' = IdleStore /\ pipe' = OpenPipe /\ norm' = IdleNorm
    BY <1>1 DEF RequestPage
  <2> QED
    BY <2>1 DEF EndsAgree, IdleStore, OpenPipe, IdleNorm
<1>2. CASE ~RequestPage
  <2>1. store' = store /\ pipe' = pipe /\ norm' = norm
    BY <1>2 DEF FetchCalled, LoopStep, StopAtCap, LimiterFails, RequestFails, JoinGoroutines,
                Finish, copyVars
  <2> QED
    BY <2>1 DEF EndsAgree
<1> QED
  BY <1>1, <1>2

LEMMA EndsAlwaysAgree == FetchSpec => [](FetchInv /\ EndsAgree)
<1>1. FetchInit => EndsAgree
  <2>1. SUFFICES ASSUME store = IdleStore, pipe = OpenPipe, norm = IdleNorm PROVE EndsAgree
    BY DEF FetchInit
  <2> QED
    BY <2>1 DEF EndsAgree, IdleStore, OpenPipe, IdleNorm
<1>2. FetchInv /\ EndsAgree /\ [FetchNext]_fetchVars => EndsAgree'
  <2>1. ASSUME FetchInv, EndsAgree, FetchNext PROVE EndsAgree'
    BY <2>1, LoopEnds, StoreStepEnds, NormalizerEnds DEF FetchNext
  <2>2. ASSUME EndsAgree, UNCHANGED fetchVars PROVE EndsAgree'
    BY <2>2 DEF fetchVars, EndsAgree
  <2> QED
    BY <2>1, <2>2
<1> QED
  BY <1>1, <1>2, FetchInvariant, PTL DEF FetchSpec

\* The storage and the normalizer of a page never both wait for each other, for
\* any number of chunks and whichever of them stops first
\* (internal/adapter/provider/aws/adapter.go): the safety half of FetchEnds.
THEOREM GoroutinesNeverBothWait == FetchSpec => []GoroutinesGetOn
<1>1. FetchInv /\ EndsAgree => GoroutinesGetOn
  <2>1. SUFFICES ASSUME FetchInv, EndsAgree, at = "copy", store.at \notin {"read", "write"}
                 PROVE  \/ store.at = "offer" /\ (norm.at = "reading" \/ pipe.reader \in {"closed", "error"})
                        \/ norm.at = "reading" /\ pipe.writer # "open"
                           /\ (norm.got > 0 \/ pipe.writer = "error")
                        \/ store.at \in {"done", "failed"} /\ norm.at # "reading"
    BY DEF GoroutinesGetOn
  <2>2. store.at \in {"offer", "done", "failed"} /\ pipe.reader \in {"open", "closed", "error"}
    BY <2>1, NumbersOfChunks DEF Stores, Pipes
  <2>3. Chunks > 0
    BY FetchNumbers
  <2> QED
    BY <2>1, <2>2, <2>3 DEF EndsAgree
<1> QED
  BY <1>1, EndsAlwaysAgree, PTL

\* The loop leads to a later stage or a later page, or to the copy of the page.
LEMMA LoopGoesForward ==
  ASSUME FetchInv, FetchCalled \/ LoopStep
  PROVE  GoesForward
<1>0. FetchTypeOK /\ page \in (1..MaxStreams) \X (1..MaxPages) /\ MaxStreams \in Nat /\ MaxPages \in Nat
  BY FetchNumbers DEF FetchInv, FetchTypeOK, PageIds
<1> DEFINE Onward == Stage(at) < Stage(at') \/ (Stage(at) = Stage(at') /\ Before(page, page'))
<1>1. ASSUME at \in {"request", "copy"}, NextStream PROVE Onward
  <2>1. at' \in {"request", "finish"} /\ (at' = "request" => Before(page, page'))
    BY <1>0, <1>1, NextStreamIsLater
  <2> QED
    BY <1>1, <2>1 DEF Stage
<1>2. ASSUME at \in {"request", "copy"}, PageFails PROVE Onward
  <2>1. CASE at' = "failed"
    BY <1>2, <2>1 DEF Stage
  <2> QED
    BY <1>0, <1>1, <1>2, <2>1, PageFailsTo
<1>3. CASE FetchCalled
  BY <1>3 DEF FetchCalled, Stage, GoesForward
<1>4. CASE StopAtCap
  BY <1>1, <1>4 DEF StopAtCap, GoesForward
<1>5. CASE LimiterFails
  BY <1>5 DEF LimiterFails, Stage, GoesForward
<1>6. CASE RequestFails
  BY <1>2, <1>6 DEF RequestFails, GoesForward
<1>7. CASE RequestPage
  BY <1>7 DEF RequestPage, GoesForward
<1>8. CASE JoinGoroutines
  <2>1. at = "copy"
    BY <1>8 DEF JoinGoroutines
  <2>2. CASE PageFails
    BY <1>2, <2>1, <2>2 DEF GoesForward
  <2>3. CASE NextStream
    BY <1>1, <2>1, <2>3 DEF GoesForward
  <2>4. CASE at' = "request" /\ page' = <<page[1], page[2] + 1>>
    <3>1. Before(page, page')
      BY <1>0, <2>4 DEF Before
    <3> QED
      BY <2>1, <2>4, <3>1 DEF Stage, GoesForward
  <2> QED
    BY <1>8, <2>2, <2>3, <2>4 DEF JoinGoroutines
<1>9. CASE Finish
  BY <1>9 DEF Finish, Stage, GoesForward
<1> QED
  BY <1>3, <1>4, <1>5, <1>6, <1>7, <1>8, <1>9 DEF LoopStep

\* A step of either goroutine leaves less of the copy to do.
LEMMA CopyGoesForward ==
  ASSUME FetchInv, EndsAgree, StoreStep \/ TakeChunk \/ NormStep, FetchInv'
  PROVE  GoesForward
<1>0. store \in Stores /\ store' \in Stores /\ Chunks \in Nat
  BY NumbersOfChunks, FetchNumbers DEF FetchInv, FetchTypeOK, Stores
<1>1. store.sent \in 0..Chunks /\ store'.sent \in 0..Chunks
      /\ store.at \in {"read", "offer", "write", "done", "failed"}
      /\ store'.at \in {"read", "offer", "write", "done", "failed"}
  BY <1>0 DEF Stores
<1>2. /\ StepsLeft["read"] = 4 /\ StepsLeft["offer"] = 3 /\ StepsLeft["write"] = 2
      /\ StepsLeft["done"] = 0 /\ StepsLeft["failed"] = 0
  BY DEF StepsLeft
<1> DEFINE reads == IF norm.at = "reading" THEN 1 ELSE 0
           willRead == IF norm'.at = "reading" THEN 1 ELSE 0
<1>3. reads \in 0..1 /\ willRead \in 0..1
  OBVIOUS
<1>4. ToDo = 3 * (Chunks - store.sent) + StepsLeft[store.at] + reads
      /\ ToDo' = 3 * (Chunks - store'.sent) + StepsLeft[store'.at] + willRead
  BY DEF ToDo, StepsLeft
<1>5. CASE StoreStep
  <2>1. willRead = reads
    BY <1>5, StoreStepEnds
  <2>2. at = "copy" /\ at' = at /\ page' = page
    BY <1>5, StoreStepEnds
  <2>3. \/ store.at = "read" /\ store'.at = "offer" /\ store'.sent = store.sent
        \/ store.at = "offer" /\ store'.at = "write" /\ store'.sent = store.sent
        \/ store.at = "write" /\ store'.at = "read" /\ store'.sent = store.sent + 1
        \/ /\ store.at \in {"read", "offer", "write"} /\ store'.at \in {"done", "failed"}
           /\ store'.sent = store.sent
    BY <1>5, StoreStepEnds
  <2> HIDE DEF reads, willRead
  <2>4. ToDo' \in Nat /\ ToDo' < ToDo
    BY <1>0, <1>1, <1>2, <1>3, <1>4, <2>1, <2>3
  <2> QED
    BY <2>2, <2>4 DEF GoesForward
<1>6. CASE TakeChunk \/ NormStep
  <2>1. at = "copy" /\ at' = at /\ page' = page /\ store'.sent = store.sent
    BY <1>6, NormalizerEnds
  <2>2. \/ store.at = "offer" /\ store'.at = "write" /\ reads = 1 /\ willRead = 1
        \/ store'.at = store.at /\ reads = 1 /\ willRead = 0
    BY <1>6, NormalizerEnds
  <2> HIDE DEF reads, willRead
  <2>3. ToDo' \in Nat /\ ToDo' < ToDo
    BY <1>0, <1>1, <1>2, <1>3, <1>4, <2>1, <2>2
  <2> QED
    BY <2>1, <2>3 DEF GoesForward
<1> QED
  BY <1>5, <1>6

\* Every step of a fetch brings it nearer to its end, for any number of streams,
\* pages and chunks: no failure, skip or panic leads back to a page that was
\* asked for, and the copy of a page cannot go on forever
\* (internal/adapter/provider).  With GoroutinesNeverBothWait this is what
\* FetchEnds rests on besides fairness.
THEOREM FetchesGoForward == FetchSpec => [][GoesForward]_fetchVars
<1>1. FetchInv /\ EndsAgree /\ FetchInv' /\ [FetchNext]_fetchVars => [GoesForward]_fetchVars
  BY LoopGoesForward, CopyGoesForward DEF FetchNext
<1> QED
  BY <1>1, EndsAlwaysAgree, PTL DEF FetchSpec

-----------------------------------------------------------------------------
(* The prices of machine types and of documents.                            *)

\* A part has a price exactly when the stream has offered one, and then its
\* price is one of those offered.
GcpPartsInv ==
  /\ DOMAIN gcpParts = GcpPartNames
  /\ gcpOffered \subseteq GcpPartNames \X GcpPrices
  /\ \A part \in GcpPartNames :
       /\ gcpParts[part] # "" => <<part, gcpParts[part]>> \in gcpOffered
       /\ (\E p \in GcpPrices : <<part, p>> \in gcpOffered) => gcpParts[part] # ""

GcpInv == GcpPartsInv /\ ComposedAcrossPages

\* What a stream has offered has a price.
LEMMA OfferedIsPriced ==
  ASSUME GcpPartsInv
  PROVE  (\A part \in GcpPartNames : gcpParts[part] # "") <=>
           (\A part \in GcpPartNames : \E p \in GcpPrices : <<part, p>> \in gcpOffered)
BY DEF GcpPartsInv

\* A SKU that is collected has a price, which becomes that of its parts.
LEMMA CollectingKeeps ==
  ASSUME GcpPartsInv, ReadSku
  PROVE  GcpPartsInv'
<1> DEFINE parts == IF GcpCollects(gcpSku', gcpTarget) THEN GcpPartsOf(gcpSku') ELSE {}
<1>1. /\ gcpParts' = [part \in GcpPartNames |-> IF part \in parts THEN gcpSku'.price ELSE gcpParts[part]]
      /\ gcpOffered' = gcpOffered \cup (parts \X {gcpSku'.price})
  BY DEF ReadSku
<1>2. parts \subseteq GcpPartNames /\ (parts # {} => gcpSku'.price \in GcpPrices)
  BY DEF GcpPartsOf, GcpCollects
<1>3. "" \notin GcpPrices
  BY DEF GcpPrices
<1> HIDE DEF parts
<1>4. \A part \in GcpPartNames :
        gcpParts'[part] = IF part \in parts THEN gcpSku'.price ELSE gcpParts[part]
  BY <1>1
<1>5. \A part, p : <<part, p>> \in gcpOffered' <=>
        <<part, p>> \in gcpOffered \/ (part \in parts /\ p = gcpSku'.price)
  BY <1>1
<1>6. gcpOffered' \subseteq GcpPartNames \X GcpPrices
  BY <1>1, <1>2 DEF GcpPartsInv
<1>7. DOMAIN gcpParts' = GcpPartNames
  BY <1>1
<1>8. ASSUME NEW part \in GcpPartNames
      PROVE  /\ gcpParts'[part] # "" => <<part, gcpParts'[part]>> \in gcpOffered'
             /\ (\E p \in GcpPrices : <<part, p>> \in gcpOffered') => gcpParts'[part] # ""
  <2>1. CASE part \in parts
    BY <1>2, <1>3, <1>4, <1>5, <2>1
  <2>2. CASE part \notin parts
    BY <1>4, <1>5, <2>2 DEF GcpPartsInv
  <2> QED
    BY <2>1, <2>2
<1> QED
  BY <1>6, <1>7, <1>8 DEF GcpPartsInv

LEMMA GcpInvariant == GcpSpec => []GcpInv
<1>1. GcpInit => GcpInv
  BY DEF GcpInit, GcpInv, GcpPartsInv, ComposedAcrossPages
<1>2. ASSUME GcpInv, [GcpNext]_gcpVars
      PROVE  GcpInv'
  <2>1. CASE UNCHANGED <<gcpParts, gcpOffered, gcpOutcome>>
    BY <1>2, <2>1 DEF GcpInv, GcpPartsInv, ComposedAcrossPages
  <2>2. CASE GcpStreamStarts \/ GcpPageEnds \/ UNCHANGED gcpVars
    BY <2>1, <2>2 DEF GcpStreamStarts, GcpPageEnds, gcpVars
  <2>3. CASE ReadSku
    <3>1. GcpPartsInv'
      BY <1>2, <2>3, CollectingKeeps DEF GcpInv
    <3>2. gcpOutcome' \in {"failed", ""}
      BY <2>3 DEF ReadSku
    <3> QED
      BY <3>1, <3>2 DEF GcpInv, GcpPartsInv, ComposedAcrossPages
  <2>4. CASE GcpStreamEnds
    <3>1. /\ gcpParts' = gcpParts /\ gcpOffered' = gcpOffered
          /\ gcpOutcome' = IF \A part \in GcpPartNames : gcpParts[part] # "" THEN "composed" ELSE "direct"
      BY <2>4 DEF GcpStreamEnds
    <3>2. GcpPartsInv'
      BY <1>2, <3>1 DEF GcpInv, GcpPartsInv
    <3>3. gcpOutcome' = "composed" <=> \A part \in GcpPartNames : gcpParts[part] # ""
      BY <3>1
    <3>4. gcpOutcome' = "composed" <=>
            \A part \in GcpPartNames : \E p \in GcpPrices : <<part, p>> \in gcpOffered'
      BY <1>2, <3>1, <3>3, OfferedIsPriced DEF GcpInv
    <3> QED
      BY <3>2, <3>4 DEF GcpInv, GcpPartsInv, ComposedAcrossPages
  <2> QED
    BY <1>2, <2>2, <2>3, <2>4 DEF GcpNext
<1> QED
  BY <1>1, <1>2, PTL DEF GcpSpec

\* For every catalog and every division of it into pages: the machine types
\* are priced exactly when the stream offered both parts in a hub, and from
\* prices that it offered (normalize.go: collectComponentPricing,
\* FinalizeComposedObservations).
THEOREM ComposedWhateverThePages == GcpSpec => []ComposedAcrossPages
<1>1. GcpInv => ComposedAcrossPages
  BY DEF GcpInv
<1> QED
  BY <1>1, GcpInvariant, PTL

-----------------------------------------------------------------------------
\* While a document is read, a pair is priced once if it was taken, and else
\* not at all; the shapes that are composed at its end are priced once.
DocInv ==
  docProvider # "oracle" =>
    /\ DOMAIN docPrices = DocSkus \X DocRegions
    /\ ~docEnded => \A entry \in DOMAIN docPrices : docPrices[entry] = IF entry \in docSeen THEN 1 ELSE 0
    /\ PricedOnceInARegion

LEMMA DocInvariant == DocSpec => []DocInv
<1>1. ASSUME DocInit
      PROVE  DocInv
  <2>1. /\ DOMAIN docPrices = DocSkus \X DocRegions /\ docSeen = {}
        /\ \A entry \in DOMAIN docPrices : docPrices[entry] = 0
    BY <1>1 DEF DocInit
  <2> QED
    BY <2>1 DEF DocInv, PricedOnceInARegion
<1>2. ASSUME DocInv, [DocNext]_docVars
      PROVE  DocInv'
  <2> SUFFICES ASSUME docProvider' # "oracle"
               PROVE  DocInv'
    BY DEF DocInv
  <2>1. CASE UNCHANGED docVars
    BY <1>2, <2>1 DEF DocInv, docVars, PricedOnceInARegion
  <2>2. CASE DocStarts
    BY <1>2, <2>2 DEF DocStarts, DocInv, PricedOnceInARegion
  <2>3. CASE DocReadItem
    <3>1. docProvider' = docProvider /\ ~docEnded /\ docEnded' = docEnded
      BY <2>3 DEF DocReadItem, docReading
    <3>2. \A i : DocDedups(docProvider, i)
      BY <3>1 DEF DocDedups
    <3>3. \E taken : /\ docPrices' = [entry \in DOMAIN docPrices |->
                                      docPrices[entry] + (IF entry \in taken THEN 1 ELSE 0)]
                     /\ docSeen' = docSeen \cup taken
                     /\ taken \cap docSeen = {}
      BY <2>3, <3>2, Zenon DEF DocReadItem
    <3>4. PICK taken : /\ docPrices' = [entry \in DOMAIN docPrices |->
                                        docPrices[entry] + (IF entry \in taken THEN 1 ELSE 0)]
                       /\ docSeen' = docSeen \cup taken
                       /\ taken \cap docSeen = {}
      BY <3>3
    <3>5. /\ DOMAIN docPrices = DocSkus \X DocRegions
          /\ \A entry \in DOMAIN docPrices : docPrices[entry] = IF entry \in docSeen THEN 1 ELSE 0
      BY <1>2, <3>1 DEF DocInv
    <3>6. DOMAIN docPrices' = DOMAIN docPrices
      BY <3>4
    <3>7. ASSUME NEW entry \in DOMAIN docPrices
          PROVE  docPrices'[entry] = IF entry \in docSeen' THEN 1 ELSE 0
      <4>1. docPrices'[entry] = docPrices[entry] + (IF entry \in taken THEN 1 ELSE 0)
        BY <3>4
      <4>2. docPrices[entry] = IF entry \in docSeen THEN 1 ELSE 0
        BY <3>5
      <4>3. /\ entry \in docSeen' <=> entry \in docSeen \/ entry \in taken
            /\ ~(entry \in docSeen /\ entry \in taken)
        BY <3>4
      <4> QED
        BY <4>1, <4>2, <4>3
    <3> QED
      BY <3>1, <3>5, <3>6, <3>7 DEF DocInv, PricedOnceInARegion
  <2>4. CASE DocEnds
    <3>1. /\ docProvider' = docProvider /\ ~docEnded /\ docEnded' = TRUE
          /\ DOMAIN docPrices' = DOMAIN docPrices
          /\ \A entry \in DOMAIN docPrices : docPrices'[entry] \in {1, docPrices[entry]}
      BY <2>4 DEF DocEnds, docReading
    <3>2. \A entry \in DOMAIN docPrices : docPrices[entry] \in {0, 1}
      BY <1>2, <3>1 DEF DocInv
    <3>3. \A entry \in DOMAIN docPrices' : docPrices'[entry] <= 1
      BY <3>1, <3>2
    <3> QED
      BY <1>2, <3>1, <3>3 DEF DocInv, PricedOnceInARegion
  <2> QED
    BY <1>2, <2>1, <2>2, <2>3, <2>4 DEF DocNext
<1> QED
  BY <1>1, <1>2, PTL DEF DocSpec

\* For every document of the providers that look up what they have taken, a
\* SKU gets at most one price in a region (compute.go, storage.go, network.go
\* of alibaba, digitalocean and ibm).
THEOREM OneScrapeOnePrice == DocSpec => []PricedOnceInARegion
<1>1. DocInv => PricedOnceInARegion
  BY DEF DocInv, PricedOnceInARegion
<1> QED
  BY <1>1, DocInvariant, PTL

-----------------------------------------------------------------------------
(* Lists of rules.                                                          *)

\* Some rule of a list applies; the first result of a list, if it has any; a
\* rule, and what follows it.
Fires(f) == \E i \in DOMAIN f : f[i][1]
First(f) == IF Fires(f) THEN Decide(f) ELSE "none"
Else(rule, otherwise) == IF rule[1] THEN rule[2] ELSE otherwise

Results == {"quarantined", "ignored", "kept", "observed", "nothing", "failed", "dropped",
            "nowhere", "regions", "part"}
Rule == BOOLEAN \X Results

LEMMA MemberRule ==
  ASSUME NEW x, NEW S
  PROVE  \A v \in Results : <<x \in S, v>> \in Rule
<1>1. (x \in S) \in BOOLEAN
  OBVIOUS
<1>2. \A b \in BOOLEAN, v \in Results : <<b, v>> \in Rule
  BY DEF Rule
<1> QED
  BY <1>1, <1>2, Zenon

\* The rule that decides applies, and none before it does.
LEMMA Decided ==
  ASSUME NEW h, DOMAIN h \subseteq Nat, Fires(h)
  PROVE  \E k \in DOMAIN h : /\ h[k][1] /\ Decide(h) = h[k][2]
                             /\ \A j \in DOMAIN h : h[j][1] => k <= j
<1> DEFINE S == {i \in DOMAIN h : h[i][1]}
<1>1. S \subseteq Nat /\ S # {}
  BY DEF Fires
<1>2. Decide(h) = h[Min(S)][2]
  BY DEF Decide
<1>3. \A i : i \in S <=> i \in DOMAIN h /\ h[i][1]
  OBVIOUS
<1> HIDE DEF S
<1>4. Min(S) \in S /\ \A j \in S : Min(S) <= j
  BY <1>1, MinIsLeast
<1> QED
  BY <1>2, <1>3, <1>4

\* So there is only one such rule.
LEMMA DecidedBy ==
  ASSUME NEW h, DOMAIN h \subseteq Nat, NEW k \in DOMAIN h, h[k][1],
         \A j \in DOMAIN h : j < k => ~h[j][1]
  PROVE  Decide(h) = h[k][2]
<1>1. Fires(h)
  BY DEF Fires
<1>2. PICK l \in DOMAIN h : /\ h[l][1] /\ Decide(h) = h[l][2]
                            /\ \A j \in DOMAIN h : h[j][1] => l <= j
  BY <1>1, Decided
<1>3. l <= k /\ ~(l < k) /\ l \in Nat /\ k \in Nat
  BY <1>2
<1>4. l = k
  BY <1>3
<1> QED
  BY <1>2, <1>4

LEMMA FirstIsResult ==
  ASSUME NEW f \in Seq(Rule)
  PROVE  First(f) = "none" <=> ~Fires(f)
<1>1. DOMAIN f \subseteq Nat /\ \A i \in DOMAIN f : f[i][2] \in Results
  <2>1. DOMAIN f = 1 .. Len(f) /\ Len(f) \in Nat
    OBVIOUS
  <2>2. \A i \in DOMAIN f : f[i] \in Rule
    OBVIOUS
  <2>3. \A r \in Rule : r[2] \in Results
    BY DEF Rule
  <2> QED
    BY <2>1, <2>2, <2>3
<1>2. Fires(f) => Decide(f) \in Results
  BY <1>1, Decided
<1>3. "none" \notin Results
  BY DEF Results
<1> QED
  BY <1>2, <1>3 DEF First

LEMMA FirstJoined ==
  ASSUME NEW f \in Seq(Rule), NEW g \in Seq(Rule)
  PROVE  /\ f \o g \in Seq(Rule)
         /\ First(f \o g) = IF First(f) = "none" THEN First(g) ELSE First(f)
         /\ First(f \o g) # "none" => Decide(f \o g) = First(f \o g)
<1> DEFINE h == f \o g
<1>1. h \in Seq(Rule) /\ Len(h) = Len(f) + Len(g) /\ Len(f) \in Nat /\ Len(g) \in Nat
  OBVIOUS
<1>2. DOMAIN h = 1 .. (Len(f) + Len(g)) /\ DOMAIN f = 1 .. Len(f) /\ DOMAIN g = 1 .. Len(g)
  BY <1>1
<1>3. /\ \A i \in DOMAIN f : i \in DOMAIN h /\ h[i] = f[i]
      /\ \A i \in DOMAIN g : Len(f) + i \in DOMAIN h /\ h[Len(f) + i] = g[i]
  BY <1>1, <1>2
<1>4. \A j \in DOMAIN h : j \in DOMAIN f \/ (j - Len(f) \in DOMAIN g /\ j = Len(f) + (j - Len(f)))
  BY <1>1, <1>2
<1>0. DOMAIN f \subseteq Nat /\ DOMAIN g \subseteq Nat /\ DOMAIN h \subseteq Nat
  BY <1>1, <1>2
<1> HIDE DEF h
<1>5. CASE Fires(f)
  <2>1. PICK k \in DOMAIN f : /\ f[k][1] /\ Decide(f) = f[k][2]
                              /\ \A j \in DOMAIN f : f[j][1] => k <= j
    BY <1>0, <1>5, Decided
  <2>2. \A j \in DOMAIN h : j < k => j \in DOMAIN f
    BY <1>1, <1>2
  <2>3. \A j \in DOMAIN h : j < k => ~h[j][1]
    <3>1. \A j \in DOMAIN f : f[j][1] => ~(j < k)
      BY <1>0, <2>1
    <3> QED
      BY <1>3, <2>2, <3>1
  <2>4. k \in DOMAIN h /\ h[k][1] /\ h[k][2] = Decide(f)
    BY <1>3, <2>1
  <2>5. Decide(h) = Decide(f)
    BY <1>0, <2>3, <2>4, DecidedBy
  <2>6. Fires(h)
    BY <2>4 DEF Fires
  <2> QED
    BY <1>1, <1>5, <2>5, <2>6, FirstIsResult DEF First, h
<1>6. CASE ~Fires(f) /\ Fires(g)
  <2>1. PICK k \in DOMAIN g : /\ g[k][1] /\ Decide(g) = g[k][2]
                              /\ \A j \in DOMAIN g : g[j][1] => k <= j
    BY <1>0, <1>6, Decided
  <2>2. \A j \in DOMAIN h : j < Len(f) + k => ~h[j][1]
    <3> TAKE j \in DOMAIN h
    <3> HAVE j < Len(f) + k
    <3>1. CASE j \in DOMAIN f
      BY <1>3, <1>6, <3>1 DEF Fires
    <3>2. CASE j \notin DOMAIN f
      <4>1. j - Len(f) \in DOMAIN g /\ j = Len(f) + (j - Len(f))
        BY <1>4, <3>2
      <4>2. ~(k <= j - Len(f))
        BY <1>0, <1>1, <2>1
      <4> QED
        BY <1>3, <2>1, <4>1, <4>2
    <3> QED
      BY <3>1, <3>2
  <2>3. Len(f) + k \in DOMAIN h /\ h[Len(f) + k][1] /\ h[Len(f) + k][2] = Decide(g)
    BY <1>3, <2>1
  <2>4. Decide(h) = Decide(g)
    BY <1>0, <2>2, <2>3, DecidedBy
  <2>5. Fires(h)
    BY <2>3 DEF Fires
  <2> QED
    BY <1>1, <1>6, <2>4, <2>5, FirstIsResult DEF First, h
<1>7. CASE ~Fires(f) /\ ~Fires(g)
  <2>1. ~Fires(h)
    BY <1>3, <1>4, <1>7 DEF Fires
  <2> QED
    BY <1>1, <1>7, <2>1 DEF First, h
<1> QED
  BY <1>5, <1>6, <1>7

\* The first rule of a list decides, or else the others do.
LEMMA HeadDecides ==
  ASSUME NEW h \in Seq(Rule), h # << >>
  PROVE  First(h) = Else(Head(h), First(Tail(h)))
<1> DEFINE t == Tail(h)
<1>1. /\ Len(h) \in Nat /\ Len(h) > 0 /\ DOMAIN h = 1 .. Len(h)
      /\ t \in Seq(Rule) /\ Len(t) = Len(h) - 1 /\ DOMAIN t = 1 .. Len(t)
      /\ Head(h) = h[1]
  OBVIOUS
<1>2. \A i \in 1 .. (Len(h) - 1) : t[i] = h[i + 1]
  OBVIOUS
<1> HIDE DEF t
<1>3. /\ DOMAIN h \subseteq Nat /\ DOMAIN t \subseteq Nat /\ 1 \in DOMAIN h
      /\ \A j \in DOMAIN h : j = 1 \/ j - 1 \in DOMAIN t
      /\ \A i \in DOMAIN t : i + 1 \in DOMAIN h /\ h[i + 1] = t[i]
  BY <1>1, <1>2
<1>4. CASE h[1][1]
  <2>1. \A j \in DOMAIN h : ~(j < 1)
    BY <1>1
  <2>2. Decide(h) = h[1][2] /\ Fires(h)
    BY <1>3, <1>4, <2>1, DecidedBy DEF Fires
  <2> QED
    BY <1>1, <1>4, <2>2 DEF First, Else
<1>5. CASE ~h[1][1] /\ Fires(t)
  <2>1. PICK k \in DOMAIN t : /\ t[k][1] /\ Decide(t) = t[k][2]
                              /\ \A j \in DOMAIN t : t[j][1] => k <= j
    BY <1>3, <1>5, Decided
  <2>2. ASSUME NEW j \in DOMAIN h, j < k + 1
        PROVE  ~h[j][1]
    <3>1. CASE j = 1
      BY <1>5, <3>1
    <3>2. CASE j - 1 \in DOMAIN t
      <4>1. ~(k <= j - 1) /\ j = (j - 1) + 1
        BY <1>3, <2>1, <2>2
      <4>2. ~t[j - 1][1]
        BY <2>1, <3>2, <4>1
      <4> QED
        BY <1>3, <3>2, <4>1, <4>2
    <3> QED
      BY <1>3, <3>1, <3>2
  <2>3. k + 1 \in DOMAIN h /\ h[k + 1][1] /\ h[k + 1][2] = Decide(t)
    BY <1>3, <2>1
  <2>4. Decide(h) = Decide(t) /\ Fires(h)
    BY <1>3, <2>2, <2>3, DecidedBy DEF Fires
  <2> QED
    BY <1>1, <1>5, <2>4 DEF First, Else, t
<1>6. CASE ~h[1][1] /\ ~Fires(t)
  <2>1. ASSUME NEW j \in DOMAIN h
        PROVE  ~h[j][1]
    <3>1. CASE j = 1
      BY <1>6, <3>1
    <3>2. CASE j - 1 \in DOMAIN t
      <4>1. j = (j - 1) + 1
        BY <1>3
      <4> QED
        BY <1>3, <1>6, <3>2, <4>1 DEF Fires
    <3> QED
      BY <1>3, <3>1, <3>2
  <2>2. ~Fires(h)
    BY <2>1 DEF Fires
  <2> QED
    BY <1>1, <1>6, <2>2 DEF First, Else, t
<1> QED
  BY <1>4, <1>5, <1>6

\* The lists of no rule to six.
LEMMA NoRules ==
  << >> \in Seq(Rule) /\ First(<< >>) = "none"
BY DEF First, Fires

LEMMA OneRule ==
  ASSUME NEW a \in Rule
  PROVE  <<a>> \in Seq(Rule) /\ First(<<a>>) = Else(a, "none")
<1>1. /\ <<a>> \in Seq(Rule) /\ <<a>> # << >>
      /\ Head(<<a>>) = a /\ Tail(<<a>>) = << >>
  OBVIOUS
<1>2. First(<< >>) = "none"
  BY NoRules
<1> QED
  BY <1>1, <1>2, HeadDecides

LEMMA TwoRules ==
  ASSUME NEW a \in Rule, NEW b \in Rule
  PROVE  <<a, b>> \in Seq(Rule) /\ First(<<a, b>>) = Else(a, Else(b, "none"))
<1>1. /\ <<a, b>> \in Seq(Rule) /\ <<a, b>> # << >>
      /\ Head(<<a, b>>) = a /\ Tail(<<a, b>>) = <<b>>
  OBVIOUS
<1>2. First(<<b>>) = Else(b, "none")
  BY OneRule
<1> QED
  BY <1>1, <1>2, HeadDecides

LEMMA ThreeRules ==
  ASSUME NEW a \in Rule, NEW b \in Rule, NEW c \in Rule
  PROVE  <<a, b, c>> \in Seq(Rule) /\ First(<<a, b, c>>) = Else(a, Else(b, Else(c, "none")))
<1>1. /\ <<a, b, c>> \in Seq(Rule) /\ <<a, b, c>> # << >>
      /\ Head(<<a, b, c>>) = a /\ Tail(<<a, b, c>>) = <<b, c>>
  OBVIOUS
<1>2. First(<<b, c>>) = Else(b, Else(c, "none"))
  BY TwoRules
<1> QED
  BY <1>1, <1>2, HeadDecides

LEMMA FourRules ==
  ASSUME NEW a \in Rule, NEW b \in Rule, NEW c \in Rule, NEW d \in Rule
  PROVE  <<a, b, c, d>> \in Seq(Rule) /\ First(<<a, b, c, d>>) = Else(a, Else(b, Else(c, Else(d, "none"))))
<1>1. /\ <<a, b, c, d>> \in Seq(Rule) /\ <<a, b, c, d>> # << >>
      /\ Head(<<a, b, c, d>>) = a /\ Tail(<<a, b, c, d>>) = <<b, c, d>>
  OBVIOUS
<1>2. First(<<b, c, d>>) = Else(b, Else(c, Else(d, "none")))
  BY ThreeRules
<1> QED
  BY <1>1, <1>2, HeadDecides

LEMMA FiveRules ==
  ASSUME NEW a \in Rule, NEW b \in Rule, NEW c \in Rule, NEW d \in Rule, NEW e \in Rule
  PROVE  <<a, b, c, d, e>> \in Seq(Rule) /\ First(<<a, b, c, d, e>>) = Else(a, Else(b, Else(c, Else(d, Else(e, "none")))))
<1>1. /\ <<a, b, c, d, e>> \in Seq(Rule) /\ <<a, b, c, d, e>> # << >>
      /\ Head(<<a, b, c, d, e>>) = a /\ Tail(<<a, b, c, d, e>>) = <<b, c, d, e>>
  OBVIOUS
<1>2. First(<<b, c, d, e>>) = Else(b, Else(c, Else(d, Else(e, "none"))))
  BY FourRules
<1> QED
  BY <1>1, <1>2, HeadDecides

LEMMA SixRules ==
  ASSUME NEW a \in Rule, NEW b \in Rule, NEW c \in Rule, NEW d \in Rule, NEW e \in Rule, NEW f \in Rule
  PROVE  <<a, b, c, d, e, f>> \in Seq(Rule) /\ First(<<a, b, c, d, e, f>>) = Else(a, Else(b, Else(c, Else(d, Else(e, Else(f, "none"))))))
<1>1. /\ <<a, b, c, d, e, f>> \in Seq(Rule) /\ <<a, b, c, d, e, f>> # << >>
      /\ Head(<<a, b, c, d, e, f>>) = a /\ Tail(<<a, b, c, d, e, f>>) = <<b, c, d, e, f>>
  OBVIOUS
<1>2. First(<<b, c, d, e, f>>) = Else(b, Else(c, Else(d, Else(e, Else(f, "none")))))
  BY FiveRules
<1> QED
  BY <1>1, <1>2, HeadDecides

-----------------------------------------------------------------------------
(* What each list of rules of DocNormalizers comes to, by its conditions.   *)

LEMMA AlibabaCompute ==
  ASSUME NEW i
  PROVE  /\ AlibabaComputeRules(i) \in Seq(Rule)
         /\ First(AlibabaComputeRules(i)) =
              IF i.category = "unknown" THEN "quarantined"
              ELSE IF i.category = "other" \/ i.kind = "unnamed" THEN "nothing"
              ELSE IF i.value = "unknown" \/ ~i.sized THEN "quarantined"
              ELSE IF ~i.priced THEN "nothing"
              ELSE IF i.regions = {} THEN "nowhere"
              ELSE "regions"
<1> DEFINE a == <<i.category = "unknown", "quarantined">>
           b == <<i.category = "other" \/ i.kind = "unnamed", "nothing">>
           c == <<i.value = "unknown" \/ ~i.sized, "quarantined">>
           d == <<~i.priced, "nothing">>
           e == <<i.regions = {}, "nowhere">>
           f == <<TRUE, "regions">>
<1>1. AlibabaComputeRules(i) = <<a, b, c, d, e, f>>
  BY DEF AlibabaComputeRules
<1>2. a \in Rule /\ b \in Rule /\ c \in Rule /\ d \in Rule /\ e \in Rule /\ f \in Rule
  BY DEF Rule, Results
<1>3. Else(a, Else(b, Else(c, Else(d, Else(e, Else(f, "none")))))) =
          IF i.category = "unknown" THEN "quarantined"
          ELSE IF i.category = "other" \/ i.kind = "unnamed" THEN "nothing"
          ELSE IF i.value = "unknown" \/ ~i.sized THEN "quarantined"
          ELSE IF ~i.priced THEN "nothing"
          ELSE IF i.regions = {} THEN "nowhere"
          ELSE "regions"
  BY DEF Else
<1> HIDE DEF a, b, c, d, e, f
<1>4. <<a, b, c, d, e, f>> \in Seq(Rule) /\ First(<<a, b, c, d, e, f>>) = Else(a, Else(b, Else(c, Else(d, Else(e, Else(f, "none"))))))
  BY <1>2, SixRules
<1> QED
  BY <1>1, <1>3, <1>4

LEMMA AlibabaOthers ==
  ASSUME NEW i
  PROVE  /\ AlibabaStorageRules(i) \in Seq(Rule)
         /\ First(AlibabaStorageRules(i)) =
              IF i.value = "unknown" THEN "quarantined"
              ELSE IF ~i.priced THEN "nothing"
              ELSE IF i.regions = {} THEN "nowhere"
              ELSE "regions"
<1> DEFINE a == <<i.value = "unknown", "quarantined">>
           b == <<~i.priced, "nothing">>
           c == <<i.regions = {}, "nowhere">>
           d == <<TRUE, "regions">>
<1>1. AlibabaStorageRules(i) = <<a, b, c, d>>
  BY DEF AlibabaStorageRules
<1>2. a \in Rule /\ b \in Rule /\ c \in Rule /\ d \in Rule
  BY DEF Rule, Results
<1>3. Else(a, Else(b, Else(c, Else(d, "none")))) =
          IF i.value = "unknown" THEN "quarantined"
          ELSE IF ~i.priced THEN "nothing"
          ELSE IF i.regions = {} THEN "nowhere"
          ELSE "regions"
  BY DEF Else
<1> HIDE DEF a, b, c, d
<1>4. <<a, b, c, d>> \in Seq(Rule) /\ First(<<a, b, c, d>>) = Else(a, Else(b, Else(c, Else(d, "none"))))
  BY <1>2, FourRules
<1> QED
  BY <1>1, <1>3, <1>4

LEMMA Droplets ==
  ASSUME NEW i
  PROVE  /\ DropletRules(i) \in Seq(Rule)
         /\ First(DropletRules(i)) =
              IF i.kind = "unnamed" THEN "nothing"
              ELSE IF ~i.sized THEN "quarantined"
              ELSE IF ~i.priced THEN "nothing"
              ELSE IF i.regions = {} THEN "nowhere"
              ELSE "regions"
<1> DEFINE a == <<i.kind = "unnamed", "nothing">>
           b == <<~i.sized, "quarantined">>
           c == <<~i.priced, "nothing">>
           d == <<i.regions = {}, "nowhere">>
           e == <<TRUE, "regions">>
<1>1. DropletRules(i) = <<a, b, c, d, e>>
  BY DEF DropletRules
<1>2. a \in Rule /\ b \in Rule /\ c \in Rule /\ d \in Rule /\ e \in Rule
  BY DEF Rule, Results
<1>3. Else(a, Else(b, Else(c, Else(d, Else(e, "none"))))) =
          IF i.kind = "unnamed" THEN "nothing"
          ELSE IF ~i.sized THEN "quarantined"
          ELSE IF ~i.priced THEN "nothing"
          ELSE IF i.regions = {} THEN "nowhere"
          ELSE "regions"
  BY DEF Else
<1> HIDE DEF a, b, c, d, e
<1>4. <<a, b, c, d, e>> \in Seq(Rule) /\ First(<<a, b, c, d, e>>) = Else(a, Else(b, Else(c, Else(d, Else(e, "none")))))
  BY <1>2, FiveRules
<1> QED
  BY <1>1, <1>3, <1>4

LEMMA DigitalOceanProducts ==
  ASSUME NEW i
  PROVE  /\ DigitalOceanProductRules(i) \in Seq(Rule)
         /\ First(DigitalOceanProductRules(i)) =
              IF i.category \in {"unknown", ""} THEN "quarantined"
              ELSE IF i.category = "other" THEN "nothing"
              ELSE "none"
<1> DEFINE a == <<i.category \in {"unknown", ""}, "quarantined">>
           b == <<i.category = "other", "nothing">>
<1>1. DigitalOceanProductRules(i) = <<a, b>>
  BY DEF DigitalOceanProductRules
<1>2. a \in Rule /\ b \in Rule
  <2>1. a \in Rule
    BY MemberRule, Zenon DEF Results
  <2>2. b \in Rule
    BY DEF Rule, Results
  <2> QED
    BY <2>1, <2>2
<1>3. Else(a, Else(b, "none")) =
          IF i.category \in {"unknown", ""} THEN "quarantined"
          ELSE IF i.category = "other" THEN "nothing"
          ELSE "none"
  BY DEF Else
<1> HIDE DEF a, b
<1> QED
  BY <1>1, <1>2, <1>3, TwoRules

LEMMA DigitalOceanOthers ==
  ASSUME NEW i
  PROVE  /\ DigitalOceanStorageRules(i) \in Seq(Rule)
         /\ First(DigitalOceanStorageRules(i)) =
              IF i.value = "unknown" THEN "quarantined"
              ELSE IF ~i.priced THEN "nothing"
              ELSE IF i.regions = {} THEN "nowhere"
              ELSE "regions"
<1> DEFINE a == <<i.value = "unknown", "quarantined">>
           b == <<~i.priced, "nothing">>
           c == <<i.regions = {}, "nowhere">>
           d == <<TRUE, "regions">>
<1>1. DigitalOceanStorageRules(i) = <<a, b, c, d>>
  BY DEF DigitalOceanStorageRules
<1>2. a \in Rule /\ b \in Rule /\ c \in Rule /\ d \in Rule
  BY DEF Rule, Results
<1>3. Else(a, Else(b, Else(c, Else(d, "none")))) =
          IF i.value = "unknown" THEN "quarantined"
          ELSE IF ~i.priced THEN "nothing"
          ELSE IF i.regions = {} THEN "nowhere"
          ELSE "regions"
  BY DEF Else
<1> HIDE DEF a, b, c, d
<1>4. <<a, b, c, d>> \in Seq(Rule) /\ First(<<a, b, c, d>>) = Else(a, Else(b, Else(c, Else(d, "none"))))
  BY <1>2, FourRules
<1> QED
  BY <1>1, <1>3, <1>4

LEMMA IbmProducts ==
  ASSUME NEW i
  PROVE  /\ IbmProductRules(i) \in Seq(Rule)
         /\ First(IbmProductRules(i)) =
              IF i.category = "unknown" /\ i.priced THEN "quarantined"
              ELSE IF i.category \in {"unknown", "other"} THEN "nothing"
              ELSE "none"
<1> DEFINE a == <<i.category = "unknown" /\ i.priced, "quarantined">>
           b == <<i.category \in {"unknown", "other"}, "nothing">>
<1>1. IbmProductRules(i) = <<a, b>>
  BY DEF IbmProductRules
<1>2. a \in Rule /\ b \in Rule
  <2>1. b \in Rule
    BY MemberRule, Zenon DEF Results
  <2>2. a \in Rule
    BY DEF Rule, Results
  <2> QED
    BY <2>1, <2>2
<1>3. Else(a, Else(b, "none")) =
          IF i.category = "unknown" /\ i.priced THEN "quarantined"
          ELSE IF i.category \in {"unknown", "other"} THEN "nothing"
          ELSE "none"
  BY DEF Else
<1> HIDE DEF a, b
<1> QED
  BY <1>1, <1>2, <1>3, TwoRules

LEMMA IbmItems ==
  ASSUME NEW i
  PROVE  /\ IbmComputeRules(i) \in Seq(Rule)
         /\ First(IbmComputeRules(i)) =
              IF i.value = "unknown" THEN "quarantined"
              ELSE IF ~i.priced THEN "nothing"
              ELSE "regions"
<1> DEFINE a == <<i.value = "unknown", "quarantined">>
           b == <<~i.priced, "nothing">>
           c == <<TRUE, "regions">>
<1>1. IbmComputeRules(i) = <<a, b, c>>
  BY DEF IbmComputeRules
<1>2. a \in Rule /\ b \in Rule /\ c \in Rule
  BY DEF Rule, Results
<1>3. Else(a, Else(b, Else(c, "none"))) =
          IF i.value = "unknown" THEN "quarantined"
          ELSE IF ~i.priced THEN "nothing"
          ELSE "regions"
  BY DEF Else
<1> HIDE DEF a, b, c
<1>4. <<a, b, c>> \in Seq(Rule) /\ First(<<a, b, c>>) = Else(a, Else(b, Else(c, "none")))
  BY <1>2, ThreeRules
<1> QED
  BY <1>1, <1>3, <1>4

LEMMA OracleProducts ==
  ASSUME NEW i
  PROVE  /\ OracleProductRules(i) \in Seq(Rule)
         /\ First(OracleProductRules(i)) =
              IF i.category \in {"unknown", "", "other"} THEN "nothing"
              ELSE "none"
<1> DEFINE a == <<i.category \in {"unknown", "", "other"}, "nothing">>
<1>1. OracleProductRules(i) = <<a>>
  BY DEF OracleProductRules
<1>2. a \in Rule
  BY MemberRule, Zenon DEF Results
<1>3. Else(a, "none") =
          IF i.category \in {"unknown", "", "other"} THEN "nothing"
          ELSE "none"
  BY DEF Else
<1> HIDE DEF a
<1> QED
  BY <1>1, <1>2, <1>3, OneRule

LEMMA OracleStorages ==
  ASSUME NEW i
  PROVE  /\ OracleStorageRules(i) \in Seq(Rule)
         /\ First(OracleStorageRules(i)) =
              IF i.kind = "auxiliary" THEN "nothing"
              ELSE IF i.value = "unknown" THEN "quarantined"
              ELSE IF ~i.priced THEN "nothing"
              ELSE IF i.regions = {} THEN "nowhere"
              ELSE "regions"
<1> DEFINE a == <<i.kind = "auxiliary", "nothing">>
           b == <<i.value = "unknown", "quarantined">>
           c == <<~i.priced, "nothing">>
           d == <<i.regions = {}, "nowhere">>
           e == <<TRUE, "regions">>
<1>1. OracleStorageRules(i) = <<a, b, c, d, e>>
  BY DEF OracleStorageRules
<1>2. a \in Rule /\ b \in Rule /\ c \in Rule /\ d \in Rule /\ e \in Rule
  BY DEF Rule, Results
<1>3. Else(a, Else(b, Else(c, Else(d, Else(e, "none"))))) =
          IF i.kind = "auxiliary" THEN "nothing"
          ELSE IF i.value = "unknown" THEN "quarantined"
          ELSE IF ~i.priced THEN "nothing"
          ELSE IF i.regions = {} THEN "nowhere"
          ELSE "regions"
  BY DEF Else
<1> HIDE DEF a, b, c, d, e
<1>4. <<a, b, c, d, e>> \in Seq(Rule) /\ First(<<a, b, c, d, e>>) = Else(a, Else(b, Else(c, Else(d, Else(e, "none")))))
  BY <1>2, FiveRules
<1> QED
  BY <1>1, <1>3, <1>4

LEMMA OracleNetworks ==
  ASSUME NEW i
  PROVE  /\ OracleNetworkRules(i) \in Seq(Rule)
         /\ First(OracleNetworkRules(i)) =
              IF i.value = "unknown" THEN "quarantined"
              ELSE IF ~i.priced THEN "nothing"
              ELSE IF i.regions = {} THEN "nowhere"
              ELSE "regions"
<1> DEFINE a == <<i.value = "unknown", "quarantined">>
           b == <<~i.priced, "nothing">>
           c == <<i.regions = {}, "nowhere">>
           d == <<TRUE, "regions">>
<1>1. OracleNetworkRules(i) = <<a, b, c, d>>
  BY DEF OracleNetworkRules
<1>2. a \in Rule /\ b \in Rule /\ c \in Rule /\ d \in Rule
  BY DEF Rule, Results
<1>3. Else(a, Else(b, Else(c, Else(d, "none")))) =
          IF i.value = "unknown" THEN "quarantined"
          ELSE IF ~i.priced THEN "nothing"
          ELSE IF i.regions = {} THEN "nowhere"
          ELSE "regions"
  BY DEF Else
<1> HIDE DEF a, b, c, d
<1>4. <<a, b, c, d>> \in Seq(Rule) /\ First(<<a, b, c, d>>) = Else(a, Else(b, Else(c, Else(d, "none"))))
  BY <1>2, FourRules
<1> QED
  BY <1>1, <1>3, <1>4

LEMMA OracleShapes ==
  ASSUME NEW i
  PROVE  /\ OracleComputeRules(i) \in Seq(Rule)
         /\ First(OracleComputeRules(i)) =
              IF ~i.priced THEN "nothing"
              ELSE IF i.regions = {} THEN "nowhere"
              ELSE IF i.kind \in {"ocpu", "memory"} /\ i.value = "unknown" THEN "quarantined"
              ELSE IF i.kind \in {"ocpu", "memory"} THEN "part"
              ELSE IF i.value = "unknown" THEN "nothing"
              ELSE "regions"
<1> DEFINE a == <<~i.priced, "nothing">>
           b == <<i.regions = {}, "nowhere">>
           c == <<(i.kind = "ocpu" \/ i.kind = "memory") /\ i.value = "unknown", "quarantined">>
           d == <<i.kind \in {"ocpu", "memory"}, "part">>
           e == <<i.value = "unknown", "nothing">>
           f == <<TRUE, "regions">>
<1>1. OracleComputeRules(i) = <<a, b, c, d, e, f>>
  BY DEF OracleComputeRules
<1>2. a \in Rule /\ b \in Rule /\ c \in Rule /\ d \in Rule /\ e \in Rule /\ f \in Rule
  <2>1. d \in Rule
    BY MemberRule, Zenon DEF Results
  <2>2. a \in Rule /\ b \in Rule /\ c \in Rule /\ e \in Rule /\ f \in Rule
    BY DEF Rule, Results
  <2> QED
    BY <2>1, <2>2
<1>3. Else(a, Else(b, Else(c, Else(d, Else(e, Else(f, "none")))))) =
          IF ~i.priced THEN "nothing"
          ELSE IF i.regions = {} THEN "nowhere"
          ELSE IF i.kind \in {"ocpu", "memory"} /\ i.value = "unknown" THEN "quarantined"
          ELSE IF i.kind \in {"ocpu", "memory"} THEN "part"
          ELSE IF i.value = "unknown" THEN "nothing"
          ELSE "regions"
  BY DEF Else
<1> HIDE DEF a, b, c, d, e, f
<1>4. <<a, b, c, d, e, f>> \in Seq(Rule) /\ First(<<a, b, c, d, e, f>>) = Else(a, Else(b, Else(c, Else(d, Else(e, Else(f, "none"))))))
  BY <1>2, SixRules
<1> QED
  BY <1>1, <1>3, <1>4

LEMMA AzureMachines ==
  ASSUME NEW i
  PROVE  /\ AzureComputeRules(i) \in Seq(Rule)
         /\ First(AzureComputeRules(i)) =
              IF AzureMentions(i, {"Windows", "Spot", "Low Priority"}) \/ ~i.sized THEN "dropped"
              ELSE "none"
<1> DEFINE a == <<AzureMentions(i, {"Windows", "Spot", "Low Priority"}) \/ ~i.sized, "dropped">>
<1>1. AzureComputeRules(i) = <<a>>
  BY DEF AzureComputeRules
<1>2. a \in Rule
  BY DEF Rule, Results
<1>3. Else(a, "none") =
          IF AzureMentions(i, {"Windows", "Spot", "Low Priority"}) \/ ~i.sized THEN "dropped"
          ELSE "none"
  BY DEF Else
<1> HIDE DEF a
<1> QED
  BY <1>1, <1>2, <1>3, OneRule

LEMMA AzureStorages ==
  ASSUME NEW i
  PROVE  /\ AzureStorageRules(i) \in Seq(Rule)
         /\ First(AzureStorageRules(i)) =
              IF AzureMentions(i, {"Storage Tasks", "Operations", "Transactions", "Storage Mover", "Data Box"})
                   \/ i.unit # "month" THEN "dropped"
              ELSE IF i.value = "unknown" THEN "quarantined"
              ELSE "none"
<1> DEFINE a == <<AzureMentions(i, {"Storage Tasks", "Operations", "Transactions", "Storage Mover", "Data Box"})
                   \/ i.unit # "month", "dropped">>
           b == <<i.value = "unknown", "quarantined">>
<1>1. AzureStorageRules(i) = <<a, b>>
  BY DEF AzureStorageRules
<1>2. a \in Rule /\ b \in Rule
  BY DEF Rule, Results
<1>3. Else(a, Else(b, "none")) =
          IF AzureMentions(i, {"Storage Tasks", "Operations", "Transactions", "Storage Mover", "Data Box"})
                   \/ i.unit # "month" THEN "dropped"
          ELSE IF i.value = "unknown" THEN "quarantined"
          ELSE "none"
  BY DEF Else
<1> HIDE DEF a, b
<1> QED
  BY <1>1, <1>2, <1>3, TwoRules

LEMMA AzureNetworks ==
  ASSUME NEW i, i.tiered \in BOOLEAN
  PROVE  /\ AzureNetworkRules(i) \in Seq(Rule)
         /\ First(AzureNetworkRules(i)) =
              IF i.tiered THEN "dropped"
              ELSE IF i.value = "unknown" THEN "quarantined"
              ELSE "none"
<1> DEFINE a == <<i.tiered, "dropped">>
           b == <<i.value = "unknown", "quarantined">>
<1>1. AzureNetworkRules(i) = <<a, b>>
  BY DEF AzureNetworkRules
<1>2. a \in Rule /\ b \in Rule
  BY DEF Rule, Results
<1>3. Else(a, Else(b, "none")) =
          IF i.tiered THEN "dropped"
          ELSE IF i.value = "unknown" THEN "quarantined"
          ELSE "none"
  BY DEF Else
<1> HIDE DEF a, b
<1> QED
  BY <1>1, <1>2, <1>3, TwoRules

LEMMA AzureDatabases ==
  ASSUME NEW i
  PROVE  /\ AzureDatabaseRules(i) \in Seq(Rule)
         /\ First(AzureDatabaseRules(i)) =
              IF i.value = "unknown" THEN "quarantined"
              ELSE "none"
<1> DEFINE a == <<i.value = "unknown", "quarantined">>
<1>1. AzureDatabaseRules(i) = <<a>>
  BY DEF AzureDatabaseRules
<1>2. a \in Rule
  BY DEF Rule, Results
<1>3. Else(a, "none") =
          IF i.value = "unknown" THEN "quarantined"
          ELSE "none"
  BY DEF Else
<1> HIDE DEF a
<1> QED
  BY <1>1, <1>2, <1>3, OneRule

LEMMA AzureDocuments ==
  ASSUME NEW i
  PROVE  /\ AzureNoSQLRules(i) \in Seq(Rule)
         /\ First(AzureNoSQLRules(i)) =
              IF i.unit \in {"month", "gigabyte"} \/ AzureMentions(i, {"Data Stored", "Storage"}) THEN "observed"
              ELSE IF AzureMentions(i, {"1M RUs", "Serverless"}) THEN "observed"
              ELSE IF AzureMentions(i, {"100 RU", "RU/s", "Request Units", "Cosmos DB"}) THEN "observed"
              ELSE "dropped"
<1> DEFINE a == <<(i.unit = "month" \/ i.unit = "gigabyte") \/ AzureMentions(i, {"Data Stored", "Storage"}), "observed">>
           b == <<AzureMentions(i, {"1M RUs", "Serverless"}), "observed">>
           c == <<AzureMentions(i, {"100 RU", "RU/s", "Request Units", "Cosmos DB"}), "observed">>
           d == <<TRUE, "dropped">>
<1>1. AzureNoSQLRules(i) = <<a, b, c, d>>
  BY DEF AzureNoSQLRules
<1>2. a \in Rule /\ b \in Rule /\ c \in Rule /\ d \in Rule
  BY DEF Rule, Results, AzureMentions
<1>3. Else(a, Else(b, Else(c, Else(d, "none")))) =
          IF i.unit \in {"month", "gigabyte"} \/ AzureMentions(i, {"Data Stored", "Storage"}) THEN "observed"
          ELSE IF AzureMentions(i, {"1M RUs", "Serverless"}) THEN "observed"
          ELSE IF AzureMentions(i, {"100 RU", "RU/s", "Request Units", "Cosmos DB"}) THEN "observed"
          ELSE "dropped"
  BY DEF Else, AzureMentions
<1> HIDE DEF a, b, c, d
<1>4. <<a, b, c, d>> \in Seq(Rule) /\ First(<<a, b, c, d>>) = Else(a, Else(b, Else(c, Else(d, "none"))))
  BY <1>2, FourRules
<1> QED
  BY <1>1, <1>3, <1>4

LEMMA AzureClusters ==
  ASSUME NEW i
  PROVE  /\ AzureKubernetesRules(i) \in Seq(Rule)
         /\ First(AzureKubernetesRules(i)) =
              IF ~AzureMentions(i, {"Azure Kubernetes Service", "kubernetes"}) THEN "ignored"
              ELSE IF i.value = "unknown" THEN "quarantined"
              ELSE "none"
<1> DEFINE a == <<~AzureMentions(i, {"Azure Kubernetes Service", "kubernetes"}), "ignored">>
           b == <<i.value = "unknown", "quarantined">>
<1>1. AzureKubernetesRules(i) = <<a, b>>
  BY DEF AzureKubernetesRules
<1>2. a \in Rule /\ b \in Rule
  BY DEF Rule, Results
<1>3. Else(a, Else(b, "none")) =
          IF ~AzureMentions(i, {"Azure Kubernetes Service", "kubernetes"}) THEN "ignored"
          ELSE IF i.value = "unknown" THEN "quarantined"
          ELSE "none"
  BY DEF Else
<1> HIDE DEF a, b
<1> QED
  BY <1>1, <1>2, <1>3, TwoRules

LEMMA AzureFunctions ==
  ASSUME NEW i
  PROVE  /\ AzureServerlessRules(i) \in Seq(Rule)
         /\ First(AzureServerlessRules(i)) =
              IF AzureMentions(i, {"Premium"}) THEN "ignored"
              ELSE IF ~AzureMentions(i, {"Functions", "Azure Functions", "Flex Consumption", "Executions"}) THEN "ignored"
              ELSE IF ~AzureMentions(i, {"Executions", "Execution Time", "Execution", "Time"}) THEN "ignored"
              ELSE IF i.value = "unknown" THEN "quarantined"
              ELSE IF i.unit = "unknown" THEN "quarantined"
              ELSE "none"
<1> DEFINE a == <<AzureMentions(i, {"Premium"}), "ignored">>
           b == <<~AzureMentions(i, {"Functions", "Azure Functions", "Flex Consumption", "Executions"}), "ignored">>
           c == <<~AzureMentions(i, {"Executions", "Execution Time", "Execution", "Time"}), "ignored">>
           d == <<i.value = "unknown", "quarantined">>
           e == <<i.unit = "unknown", "quarantined">>
<1>1. AzureServerlessRules(i) = <<a, b, c, d, e>>
  BY DEF AzureServerlessRules
<1>2. a \in Rule /\ b \in Rule /\ c \in Rule /\ d \in Rule /\ e \in Rule
  BY DEF Rule, Results, AzureMentions
<1>3. Else(a, Else(b, Else(c, Else(d, Else(e, "none"))))) =
          IF AzureMentions(i, {"Premium"}) THEN "ignored"
          ELSE IF ~AzureMentions(i, {"Functions", "Azure Functions", "Flex Consumption", "Executions"}) THEN "ignored"
          ELSE IF ~AzureMentions(i, {"Executions", "Execution Time", "Execution", "Time"}) THEN "ignored"
          ELSE IF i.value = "unknown" THEN "quarantined"
          ELSE IF i.unit = "unknown" THEN "quarantined"
          ELSE "none"
  BY DEF Else, AzureMentions
<1> HIDE DEF a, b, c, d, e
<1>4. <<a, b, c, d, e>> \in Seq(Rule) /\ First(<<a, b, c, d, e>>) = Else(a, Else(b, Else(c, Else(d, Else(e, "none")))))
  BY <1>2, FiveRules
<1> QED
  BY <1>1, <1>3, <1>4

LEMMA GcpPriceFirst ==
  ASSUME NEW price
  PROVE  /\ GcpPriceRules(price) \in Seq(Rule)
         /\ First(GcpPriceRules(price)) =
              IF price = "none" THEN "nothing"
              ELSE IF price = "invalid" THEN "failed"
              ELSE IF price = "zero" THEN "nothing"
              ELSE "none"
<1> DEFINE a == <<price = "none", "nothing">>
           b == <<price = "invalid", "failed">>
           c == <<price = "zero", "nothing">>
<1>1. GcpPriceRules(price) = <<a, b, c>>
  BY DEF GcpPriceRules
<1>2. a \in Rule /\ b \in Rule /\ c \in Rule
  BY DEF Rule, Results
<1>3. Else(a, Else(b, Else(c, "none"))) =
          IF price = "none" THEN "nothing"
          ELSE IF price = "invalid" THEN "failed"
          ELSE IF price = "zero" THEN "nothing"
          ELSE "none"
  BY DEF Else
<1> HIDE DEF a, b, c
<1>4. <<a, b, c>> \in Seq(Rule) /\ First(<<a, b, c>>) = Else(a, Else(b, Else(c, "none")))
  BY <1>2, ThreeRules
<1> QED
  BY <1>1, <1>3, <1>4

LEMMA GcpRegionFirst ==
  ASSUME NEW s
  PROVE  /\ GcpRegionRules(s) \in Seq(Rule)
         /\ First(GcpRegionRules(s)) =
              IF s.region = "unknown" THEN "quarantined"
              ELSE IF s.region = "other" THEN "nothing"
              ELSE "none"
<1> DEFINE a == <<s.region = "unknown", "quarantined">>
           b == <<s.region = "other", "nothing">>
<1>1. GcpRegionRules(s) = <<a, b>>
  BY DEF GcpRegionRules
<1>2. a \in Rule /\ b \in Rule
  BY DEF Rule, Results
<1>3. Else(a, Else(b, "none")) =
          IF s.region = "unknown" THEN "quarantined"
          ELSE IF s.region = "other" THEN "nothing"
          ELSE "none"
  BY DEF Else
<1> HIDE DEF a, b
<1> QED
  BY <1>1, <1>2, <1>3, TwoRules

\* The lists before decide, or else those behind.
LEMMA ThreeLists ==
  ASSUME NEW f \in Seq(Rule), NEW g \in Seq(Rule), NEW h \in Seq(Rule)
  PROVE  /\ f \o g \o h \in Seq(Rule)
         /\ First(f \o g \o h) = IF First(f) # "none" THEN First(f)
                                ELSE IF First(g) # "none" THEN First(g) ELSE First(h)
<1>1. f \o g \in Seq(Rule) /\ First(f \o g) = IF First(f) = "none" THEN First(g) ELSE First(f)
  BY FirstJoined
<1>2. /\ (f \o g) \o h \in Seq(Rule)
      /\ First((f \o g) \o h) = IF First(f \o g) = "none" THEN First(h) ELSE First(f \o g)
  BY <1>1, FirstJoined
<1> QED
  BY <1>1, <1>2

LEMMA FourLists ==
  ASSUME NEW f \in Seq(Rule), NEW g \in Seq(Rule), NEW h \in Seq(Rule), NEW k \in Seq(Rule)
  PROVE  /\ f \o g \o h \o k \in Seq(Rule)
         /\ First(f \o g \o h \o k) = IF First(f) # "none" THEN First(f)
                                     ELSE IF First(g) # "none" THEN First(g)
                                     ELSE IF First(h) # "none" THEN First(h) ELSE First(k)
<1> DEFINE fgh == f \o g \o h
<1>1. fgh \in Seq(Rule) /\ First(fgh) = IF First(f) # "none" THEN First(f)
                                      ELSE IF First(g) # "none" THEN First(g) ELSE First(h)
  BY ThreeLists
<1> HIDE DEF fgh
<1>2. fgh \o k \in Seq(Rule) /\ First(fgh \o k) = IF First(fgh) = "none" THEN First(k) ELSE First(fgh)
  BY <1>1, FirstJoined
<1> QED
  BY <1>1, <1>2 DEF fgh

LEMMA GcpMachines ==
  ASSUME NEW s
  PROVE  /\ GcpComputeRules(s) \in Seq(Rule)
         /\ First(GcpComputeRules(s)) =
              IF ~IsGcpComputeInstance(s) THEN "nothing"
              ELSE IF First(GcpPriceRules(s.price)) # "none" THEN First(GcpPriceRules(s.price))
              ELSE IF ~s.shaped THEN "nothing"
              ELSE First(GcpRegionRules(s))
<1> DEFINE a == <<~IsGcpComputeInstance(s), "nothing">>
           price == GcpPriceRules(s.price)
           b == <<~s.shaped, "nothing">>
           region == GcpRegionRules(s)
           before == <<a>>
           then == <<b>>
<1>1. GcpComputeRules(s) = before \o price \o then \o region
  BY DEF GcpComputeRules
<1>2. a \in Rule /\ b \in Rule
  BY DEF Rule, Results
<1>3. /\ Else(a, "none") = IF ~IsGcpComputeInstance(s) THEN "nothing" ELSE "none"
      /\ Else(b, "none") = IF ~s.shaped THEN "nothing" ELSE "none"
  BY DEF Else
<1>4. price \in Seq(Rule) /\ region \in Seq(Rule)
  BY GcpPriceFirst, GcpRegionFirst
<1> HIDE DEF a, b, price, region
<1>5. /\ before \in Seq(Rule) /\ First(before) = Else(a, "none")
      /\ then \in Seq(Rule) /\ First(then) = Else(b, "none")
  BY <1>2, OneRule, TwoRules
<1> HIDE DEF before, then
<1>6. /\ before \o price \o then \o region \in Seq(Rule)
      /\ First(before \o price \o then \o region) =
           IF First(before) # "none" THEN First(before)
           ELSE IF First(price) # "none" THEN First(price)
           ELSE IF First(then) # "none" THEN First(then)
           ELSE First(region)
  BY <1>4, <1>5, FourLists
<1>7. First(GcpComputeRules(s)) =
          IF ~IsGcpComputeInstance(s) THEN "nothing"
          ELSE IF First(price) # "none" THEN First(price)
          ELSE IF ~s.shaped THEN "nothing"
          ELSE First(region)
  BY <1>1, <1>3, <1>5, <1>6
<1> QED
  BY <1>1, <1>6, <1>7 DEF price, region

LEMMA GcpStorages ==
  ASSUME NEW s
  PROVE  /\ GcpStorageRules(s) \in Seq(Rule)
         /\ First(GcpStorageRules(s)) =
              IF ~IsGcpStorage(s) THEN "nothing"
              ELSE IF First(GcpPriceRules(s.price)) # "none" THEN First(GcpPriceRules(s.price))
              ELSE IF s.value = "unknown" THEN "quarantined"
              ELSE First(GcpRegionRules(s))
<1> DEFINE a == <<~IsGcpStorage(s), "nothing">>
           price == GcpPriceRules(s.price)
           b == <<s.value = "unknown", "quarantined">>
           region == GcpRegionRules(s)
           before == <<a>>
           then == <<b>>
<1>1. GcpStorageRules(s) = before \o price \o then \o region
  BY DEF GcpStorageRules
<1>2. a \in Rule /\ b \in Rule
  BY DEF Rule, Results
<1>3. /\ Else(a, "none") = IF ~IsGcpStorage(s) THEN "nothing" ELSE "none"
      /\ Else(b, "none") = IF s.value = "unknown" THEN "quarantined" ELSE "none"
  BY DEF Else
<1>4. price \in Seq(Rule) /\ region \in Seq(Rule)
  BY GcpPriceFirst, GcpRegionFirst
<1> HIDE DEF a, b, price, region
<1>5. /\ before \in Seq(Rule) /\ First(before) = Else(a, "none")
      /\ then \in Seq(Rule) /\ First(then) = Else(b, "none")
  BY <1>2, OneRule, TwoRules
<1> HIDE DEF before, then
<1>6. /\ before \o price \o then \o region \in Seq(Rule)
      /\ First(before \o price \o then \o region) =
           IF First(before) # "none" THEN First(before)
           ELSE IF First(price) # "none" THEN First(price)
           ELSE IF First(then) # "none" THEN First(then)
           ELSE First(region)
  BY <1>4, <1>5, FourLists
<1>7. First(GcpStorageRules(s)) =
          IF ~IsGcpStorage(s) THEN "nothing"
          ELSE IF First(price) # "none" THEN First(price)
          ELSE IF s.value = "unknown" THEN "quarantined"
          ELSE First(region)
  BY <1>1, <1>3, <1>5, <1>6
<1> QED
  BY <1>1, <1>6, <1>7 DEF price, region

LEMMA GcpEgress ==
  ASSUME NEW s
  PROVE  /\ GcpNetworkRules(s) \in Seq(Rule)
         /\ First(GcpNetworkRules(s)) =
              IF ~IsGcpNetwork(s) \/ s.tiered THEN "nothing"
              ELSE IF First(GcpPriceRules(s.price)) # "none" THEN First(GcpPriceRules(s.price))
              ELSE IF s.value = "unknown" THEN "quarantined"
              ELSE IF s.region = "unknown" THEN "quarantined"
              ELSE "none"
<1> DEFINE a == <<~IsGcpNetwork(s) \/ s.tiered, "nothing">>
           price == GcpPriceRules(s.price)
           b == <<s.value = "unknown", "quarantined">>
           c == <<s.region = "unknown", "quarantined">>
           before == <<a>>
           then == <<b, c>>
<1>1. GcpNetworkRules(s) = before \o price \o then
  BY DEF GcpNetworkRules
<1>2. a \in Rule /\ b \in Rule /\ c \in Rule
  BY DEF Rule, Results
<1>3. /\ Else(a, "none") = IF ~IsGcpNetwork(s) \/ s.tiered THEN "nothing" ELSE "none"
      /\ Else(b, Else(c, "none")) = IF s.value = "unknown" THEN "quarantined" ELSE IF s.region = "unknown" THEN "quarantined" ELSE "none"
  BY DEF Else
<1>4. price \in Seq(Rule)
  BY GcpPriceFirst, GcpRegionFirst
<1> HIDE DEF a, b, c, price
<1>5. /\ before \in Seq(Rule) /\ First(before) = Else(a, "none")
      /\ then \in Seq(Rule) /\ First(then) = Else(b, Else(c, "none"))
  BY <1>2, OneRule, TwoRules
<1> HIDE DEF before, then
<1>6. /\ before \o price \o then \in Seq(Rule)
      /\ First(before \o price \o then) =
           IF First(before) # "none" THEN First(before)
           ELSE IF First(price) # "none" THEN First(price)
           ELSE First(then)
  BY <1>4, <1>5, ThreeLists
<1>7. First(GcpNetworkRules(s)) =
          IF ~IsGcpNetwork(s) \/ s.tiered THEN "nothing"
          ELSE IF First(price) # "none" THEN First(price)
          ELSE IF s.value = "unknown" THEN "quarantined"
          ELSE IF s.region = "unknown" THEN "quarantined"
          ELSE "none"
  BY <1>1, <1>3, <1>5, <1>6
<1> QED
  BY <1>1, <1>6, <1>7 DEF price

LEMMA GcpDatabases ==
  ASSUME NEW s
  PROVE  /\ GcpDatabaseRules(s) \in Seq(Rule)
         /\ First(GcpDatabaseRules(s)) =
              IF ~IsGcpDatabase(s) \/ IsOutOfScopeDatabase(s) \/ IsGcpDatabaseComponent(s) THEN "nothing"
              ELSE IF First(GcpPriceRules(s.price)) # "none" THEN First(GcpPriceRules(s.price))
              ELSE IF ~IsGcpDatabaseStorage(s) /\ ~s.shaped THEN "quarantined"
              ELSE IF ~IsGcpDatabaseStorage(s) /\ s.value = "unknown" THEN "quarantined"
              ELSE First(GcpRegionRules(s))
<1> DEFINE a == <<~IsGcpDatabase(s) \/ IsOutOfScopeDatabase(s) \/ IsGcpDatabaseComponent(s), "nothing">>
           price == GcpPriceRules(s.price)
           b == <<~IsGcpDatabaseStorage(s) /\ ~s.shaped, "quarantined">>
           c == <<~IsGcpDatabaseStorage(s) /\ s.value = "unknown", "quarantined">>
           region == GcpRegionRules(s)
           before == <<a>>
           then == <<b, c>>
<1>1. GcpDatabaseRules(s) = before \o price \o then \o region
  BY DEF GcpDatabaseRules
<1>2. a \in Rule /\ b \in Rule /\ c \in Rule
  BY DEF Rule, Results
<1>3. /\ Else(a, "none") = IF ~IsGcpDatabase(s) \/ IsOutOfScopeDatabase(s) \/ IsGcpDatabaseComponent(s) THEN "nothing" ELSE "none"
      /\ Else(b, Else(c, "none")) = IF ~IsGcpDatabaseStorage(s) /\ ~s.shaped THEN "quarantined" ELSE IF ~IsGcpDatabaseStorage(s) /\ s.value = "unknown" THEN "quarantined" ELSE "none"
  BY DEF Else
<1>4. price \in Seq(Rule) /\ region \in Seq(Rule)
  BY GcpPriceFirst, GcpRegionFirst
<1> HIDE DEF a, b, c, price, region
<1>5. /\ before \in Seq(Rule) /\ First(before) = Else(a, "none")
      /\ then \in Seq(Rule) /\ First(then) = Else(b, Else(c, "none"))
  BY <1>2, OneRule, TwoRules
<1> HIDE DEF before, then
<1>6. /\ before \o price \o then \o region \in Seq(Rule)
      /\ First(before \o price \o then \o region) =
           IF First(before) # "none" THEN First(before)
           ELSE IF First(price) # "none" THEN First(price)
           ELSE IF First(then) # "none" THEN First(then)
           ELSE First(region)
  BY <1>4, <1>5, FourLists
<1>7. First(GcpDatabaseRules(s)) =
          IF ~IsGcpDatabase(s) \/ IsOutOfScopeDatabase(s) \/ IsGcpDatabaseComponent(s) THEN "nothing"
          ELSE IF First(price) # "none" THEN First(price)
          ELSE IF ~IsGcpDatabaseStorage(s) /\ ~s.shaped THEN "quarantined"
          ELSE IF ~IsGcpDatabaseStorage(s) /\ s.value = "unknown" THEN "quarantined"
          ELSE First(region)
  BY <1>1, <1>3, <1>5, <1>6
<1> QED
  BY <1>1, <1>6, <1>7 DEF price, region

LEMMA GcpDocuments ==
  ASSUME NEW s
  PROVE  /\ GcpNoSQLRules(s) \in Seq(Rule)
         /\ First(GcpNoSQLRules(s)) =
              IF First(GcpPriceRules(s.price)) # "none" THEN First(GcpPriceRules(s.price))
              ELSE IF First(GcpRegionRules(s)) # "none" THEN First(GcpRegionRules(s))
              ELSE IF s.unit # "month" /\ ~GcpMentions(s, {"Database Stored Data", "Storage", "Node", "Read", "Write"}) THEN "nothing"
              ELSE "none"
<1> DEFINE price == GcpPriceRules(s.price)
           region == GcpRegionRules(s)
           a == <<s.unit # "month" /\ ~GcpMentions(s, {"Database Stored Data", "Storage", "Node", "Read", "Write"}), "nothing">>
           before == <<a>>
<1>1. GcpNoSQLRules(s) = price \o region \o before
  BY DEF GcpNoSQLRules
<1>2. a \in Rule
  BY DEF Rule, Results
<1>3. Else(a, "none") = IF s.unit # "month" /\ ~GcpMentions(s, {"Database Stored Data", "Storage", "Node", "Read", "Write"}) THEN "nothing" ELSE "none"
  BY DEF Else
<1>4. price \in Seq(Rule) /\ region \in Seq(Rule)
  BY GcpPriceFirst, GcpRegionFirst
<1> HIDE DEF a, price, region
<1>5. before \in Seq(Rule) /\ First(before) = Else(a, "none")
  BY <1>2, OneRule, TwoRules
<1> HIDE DEF before
<1>6. /\ price \o region \o before \in Seq(Rule)
      /\ First(price \o region \o before) =
           IF First(price) # "none" THEN First(price)
           ELSE IF First(region) # "none" THEN First(region)
           ELSE First(before)
  BY <1>4, <1>5, ThreeLists
<1>7. First(GcpNoSQLRules(s)) =
          IF First(price) # "none" THEN First(price)
          ELSE IF First(region) # "none" THEN First(region)
          ELSE IF s.unit # "month" /\ ~GcpMentions(s, {"Database Stored Data", "Storage", "Node", "Read", "Write"}) THEN "nothing"
          ELSE "none"
  BY <1>1, <1>3, <1>5, <1>6
<1> QED
  BY <1>1, <1>6, <1>7 DEF price, region

LEMMA GcpClusters ==
  ASSUME NEW s
  PROVE  /\ GcpKubernetesRules(s) \in Seq(Rule)
         /\ First(GcpKubernetesRules(s)) =
              IF ~IsGcpKubernetes(s) THEN "nothing"
              ELSE IF First(GcpPriceRules(s.price)) # "none" THEN First(GcpPriceRules(s.price))
              ELSE IF s.value = "unknown" THEN "quarantined"
              ELSE First(GcpRegionRules(s))
<1> DEFINE a == <<~IsGcpKubernetes(s), "nothing">>
           price == GcpPriceRules(s.price)
           b == <<s.value = "unknown", "quarantined">>
           region == GcpRegionRules(s)
           before == <<a>>
           then == <<b>>
<1>1. GcpKubernetesRules(s) = before \o price \o then \o region
  BY DEF GcpKubernetesRules
<1>2. a \in Rule /\ b \in Rule
  BY DEF Rule, Results
<1>3. /\ Else(a, "none") = IF ~IsGcpKubernetes(s) THEN "nothing" ELSE "none"
      /\ Else(b, "none") = IF s.value = "unknown" THEN "quarantined" ELSE "none"
  BY DEF Else
<1>4. price \in Seq(Rule) /\ region \in Seq(Rule)
  BY GcpPriceFirst, GcpRegionFirst
<1> HIDE DEF a, b, price, region
<1>5. /\ before \in Seq(Rule) /\ First(before) = Else(a, "none")
      /\ then \in Seq(Rule) /\ First(then) = Else(b, "none")
  BY <1>2, OneRule, TwoRules
<1> HIDE DEF before, then
<1>6. /\ before \o price \o then \o region \in Seq(Rule)
      /\ First(before \o price \o then \o region) =
           IF First(before) # "none" THEN First(before)
           ELSE IF First(price) # "none" THEN First(price)
           ELSE IF First(then) # "none" THEN First(then)
           ELSE First(region)
  BY <1>4, <1>5, FourLists
<1>7. First(GcpKubernetesRules(s)) =
          IF ~IsGcpKubernetes(s) THEN "nothing"
          ELSE IF First(price) # "none" THEN First(price)
          ELSE IF s.value = "unknown" THEN "quarantined"
          ELSE First(region)
  BY <1>1, <1>3, <1>5, <1>6
<1> QED
  BY <1>1, <1>6, <1>7 DEF price, region

LEMMA GcpFunctions ==
  ASSUME NEW s
  PROVE  /\ GcpServerlessRules(s) \in Seq(Rule)
         /\ First(GcpServerlessRules(s)) =
              IF IsOutOfScopeServerless(s) THEN "nothing"
              ELSE IF First(GcpPriceRules(GcpFirstPaid(s))) # "none" THEN First(GcpPriceRules(GcpFirstPaid(s)))
              ELSE IF ~GcpMentions(s, {"CPU", "Memory", "Invocation", "Request", "Time"}) THEN "nothing"
              ELSE IF s.value = "unknown" THEN "quarantined"
              ELSE First(GcpRegionRules(s))
<1> DEFINE a == <<IsOutOfScopeServerless(s), "nothing">>
           price == GcpPriceRules(GcpFirstPaid(s))
           b == <<~GcpMentions(s, {"CPU", "Memory", "Invocation", "Request", "Time"}), "nothing">>
           c == <<s.value = "unknown", "quarantined">>
           region == GcpRegionRules(s)
           before == <<a>>
           then == <<b, c>>
<1>1. GcpServerlessRules(s) = before \o price \o then \o region
  BY DEF GcpServerlessRules
<1>2. a \in Rule /\ b \in Rule /\ c \in Rule
  BY DEF Rule, Results, IsOutOfScopeServerless, GcpMentions
<1>3. /\ Else(a, "none") = IF IsOutOfScopeServerless(s) THEN "nothing" ELSE "none"
      /\ Else(b, Else(c, "none")) = IF ~GcpMentions(s, {"CPU", "Memory", "Invocation", "Request", "Time"}) THEN "nothing" ELSE IF s.value = "unknown" THEN "quarantined" ELSE "none"
  BY DEF Else, IsOutOfScopeServerless, GcpMentions
<1>4. price \in Seq(Rule) /\ region \in Seq(Rule)
  BY GcpPriceFirst, GcpRegionFirst
<1> HIDE DEF a, b, c, price, region
<1>5. /\ before \in Seq(Rule) /\ First(before) = Else(a, "none")
      /\ then \in Seq(Rule) /\ First(then) = Else(b, Else(c, "none"))
  BY <1>2, OneRule, TwoRules
<1> HIDE DEF before, then
<1>6. /\ before \o price \o then \o region \in Seq(Rule)
      /\ First(before \o price \o then \o region) =
           IF First(before) # "none" THEN First(before)
           ELSE IF First(price) # "none" THEN First(price)
           ELSE IF First(then) # "none" THEN First(then)
           ELSE First(region)
  BY <1>4, <1>5, FourLists
<1>7. First(GcpServerlessRules(s)) =
          IF IsOutOfScopeServerless(s) THEN "nothing"
          ELSE IF First(price) # "none" THEN First(price)
          ELSE IF ~GcpMentions(s, {"CPU", "Memory", "Invocation", "Request", "Time"}) THEN "nothing"
          ELSE IF s.value = "unknown" THEN "quarantined"
          ELSE First(region)
  BY <1>1, <1>3, <1>5, <1>6
<1> QED
  BY <1>1, <1>6, <1>7 DEF price, region

LEMMA AwsMachines ==
  ASSUME NEW p, NEW o
  PROVE  /\ AwsComputeRules(p, o) \in Seq(Rule)
         /\ First(AwsComputeRules(p, o)) =
              IF (IF p.service = "" THEN o ELSE p.service) \notin AwsServices THEN "quarantined"
              ELSE IF p.location = "unknown" THEN "quarantined"
              ELSE "none"
<1> DEFINE a == <<(IF p.service = "" THEN o ELSE p.service) \notin AwsServices, "quarantined">>
           b == <<p.location = "unknown", "quarantined">>
<1>1. AwsComputeRules(p, o) = <<a, b>>
  BY DEF AwsComputeRules, UnknownService, UnknownLocation
<1>2. a \in Rule /\ b \in Rule
  BY DEF Rule, Results
<1>3. Else(a, Else(b, "none")) =
          IF (IF p.service = "" THEN o ELSE p.service) \notin AwsServices THEN "quarantined"
          ELSE IF p.location = "unknown" THEN "quarantined"
          ELSE "none"
  BY DEF Else
<1> HIDE DEF a, b
<1> QED
  BY <1>1, <1>2, <1>3, TwoRules

LEMMA AwsStorages ==
  ASSUME NEW p
  PROVE  /\ AwsStorageRules(p) \in Seq(Rule)
         /\ First(AwsStorageRules(p)) =
              IF p.location = "unknown" THEN "quarantined"
              ELSE IF p.value # "known" THEN "quarantined"
              ELSE "none"
<1> DEFINE a == <<p.location = "unknown", "quarantined">>
           b == <<p.value # "known", "quarantined">>
<1>1. AwsStorageRules(p) = <<a, b>>
  BY DEF AwsStorageRules, UnknownLocation, UnknownValue
<1>2. a \in Rule /\ b \in Rule
  BY DEF Rule, Results
<1>3. Else(a, Else(b, "none")) =
          IF p.location = "unknown" THEN "quarantined"
          ELSE IF p.value # "known" THEN "quarantined"
          ELSE "none"
  BY DEF Else
<1> HIDE DEF a, b
<1> QED
  BY <1>1, <1>2, <1>3, TwoRules

LEMMA AwsNetworks ==
  ASSUME NEW p
  PROVE  /\ AwsNetworkRules(p) \in Seq(Rule)
         /\ First(AwsNetworkRules(p)) =
              IF p.location = "unknown" THEN "quarantined"
              ELSE IF p.value = "unknown" THEN "quarantined"
              ELSE "none"
<1> DEFINE a == <<p.location = "unknown", "quarantined">>
           b == <<p.value = "unknown", "quarantined">>
<1>1. AwsNetworkRules(p) = <<a, b>>
  BY DEF AwsNetworkRules, UnknownLocation
<1>2. a \in Rule /\ b \in Rule
  BY DEF Rule, Results
<1>3. Else(a, Else(b, "none")) =
          IF p.location = "unknown" THEN "quarantined"
          ELSE IF p.value = "unknown" THEN "quarantined"
          ELSE "none"
  BY DEF Else
<1> HIDE DEF a, b
<1> QED
  BY <1>1, <1>2, <1>3, TwoRules

LEMMA AwsDocuments ==
  ASSUME NEW p, NEW o
  PROVE  /\ AwsNoSQLRules(p, o) \in Seq(Rule)
         /\ First(AwsNoSQLRules(p, o)) =
              IF (IF p.service = "" THEN o ELSE p.service) \notin AwsServices THEN "quarantined"
              ELSE IF p.location = "unknown" THEN "quarantined"
              ELSE IF NoSQLOutOfScope(p) THEN "ignored"
              ELSE "none"
<1> DEFINE a == <<(IF p.service = "" THEN o ELSE p.service) \notin AwsServices, "quarantined">>
           b == <<p.location = "unknown", "quarantined">>
           c == <<NoSQLOutOfScope(p), "ignored">>
<1>1. AwsNoSQLRules(p, o) = <<a, b, c>>
  BY DEF AwsNoSQLRules, UnknownService, UnknownLocation
<1>2. a \in Rule /\ b \in Rule /\ c \in Rule
  BY DEF Rule, Results, NoSQLOutOfScope
<1>3. Else(a, Else(b, Else(c, "none"))) =
          IF (IF p.service = "" THEN o ELSE p.service) \notin AwsServices THEN "quarantined"
          ELSE IF p.location = "unknown" THEN "quarantined"
          ELSE IF NoSQLOutOfScope(p) THEN "ignored"
          ELSE "none"
  BY DEF Else, NoSQLOutOfScope
<1> HIDE DEF a, b, c
<1>4. <<a, b, c>> \in Seq(Rule) /\ First(<<a, b, c>>) = Else(a, Else(b, Else(c, "none")))
  BY <1>2, ThreeRules
<1> QED
  BY <1>1, <1>3, <1>4

LEMMA AwsClusters ==
  ASSUME NEW p, NEW o
  PROVE  /\ AwsKubernetesRules(p, o) \in Seq(Rule)
         /\ First(AwsKubernetesRules(p, o)) =
              IF (IF p.service = "" THEN o ELSE p.service) \notin AwsServices THEN "quarantined"
              ELSE IF p.location = "unknown" THEN "quarantined"
              ELSE IF p.value # "known" THEN "quarantined"
              ELSE "none"
<1> DEFINE a == <<(IF p.service = "" THEN o ELSE p.service) \notin AwsServices, "quarantined">>
           b == <<p.location = "unknown", "quarantined">>
           c == <<p.value # "known", "quarantined">>
<1>1. AwsKubernetesRules(p, o) = <<a, b, c>>
  BY DEF AwsKubernetesRules, UnknownService, UnknownLocation, UnknownValue
<1>2. a \in Rule /\ b \in Rule /\ c \in Rule
  BY DEF Rule, Results
<1>3. Else(a, Else(b, Else(c, "none"))) =
          IF (IF p.service = "" THEN o ELSE p.service) \notin AwsServices THEN "quarantined"
          ELSE IF p.location = "unknown" THEN "quarantined"
          ELSE IF p.value # "known" THEN "quarantined"
          ELSE "none"
  BY DEF Else
<1> HIDE DEF a, b, c
<1>4. <<a, b, c>> \in Seq(Rule) /\ First(<<a, b, c>>) = Else(a, Else(b, Else(c, "none")))
  BY <1>2, ThreeRules
<1> QED
  BY <1>1, <1>3, <1>4

LEMMA AwsFunctions ==
  ASSUME NEW p, NEW o
  PROVE  /\ AwsServerlessRules(p, o) \in Seq(Rule)
         /\ First(AwsServerlessRules(p, o)) =
              IF (IF p.service = "" THEN o ELSE p.service) \notin AwsServices THEN "quarantined"
              ELSE IF ServerlessOutOfScope(p) THEN "ignored"
              ELSE IF p.location = "unknown" THEN "quarantined"
              ELSE IF p.value # "known" THEN "quarantined"
              ELSE "none"
<1> DEFINE a == <<(IF p.service = "" THEN o ELSE p.service) \notin AwsServices, "quarantined">>
           b == <<ServerlessOutOfScope(p), "ignored">>
           c == <<p.location = "unknown", "quarantined">>
           d == <<p.value # "known", "quarantined">>
<1>1. AwsServerlessRules(p, o) = <<a, b, c, d>>
  BY DEF AwsServerlessRules, UnknownService, UnknownLocation, UnknownValue
<1>2. a \in Rule /\ b \in Rule /\ c \in Rule /\ d \in Rule
  BY DEF Rule, Results, ServerlessOutOfScope
<1>3. Else(a, Else(b, Else(c, Else(d, "none")))) =
          IF (IF p.service = "" THEN o ELSE p.service) \notin AwsServices THEN "quarantined"
          ELSE IF ServerlessOutOfScope(p) THEN "ignored"
          ELSE IF p.location = "unknown" THEN "quarantined"
          ELSE IF p.value # "known" THEN "quarantined"
          ELSE "none"
  BY DEF Else, ServerlessOutOfScope
<1> HIDE DEF a, b, c, d
<1>4. <<a, b, c, d>> \in Seq(Rule) /\ First(<<a, b, c, d>>) = Else(a, Else(b, Else(c, Else(d, "none"))))
  BY <1>2, FourRules
<1> QED
  BY <1>1, <1>3, <1>4

LEMMA AwsDatabases ==
  ASSUME NEW p, NEW o
  PROVE  /\ AwsDatabaseRules(p, o) \in Seq(Rule)
         /\ First(AwsDatabaseRules(p, o)) =
              IF (IF p.service = "" THEN o ELSE p.service) \notin AwsServices THEN "quarantined"
              ELSE IF p.location = "unknown" THEN "quarantined"
              ELSE IF DatabaseOutOfScope(p) THEN "ignored"
              ELSE IF p.family = "Database Instance" /\ p.value # "known" THEN "quarantined"
              ELSE "none"
<1> DEFINE a == <<(IF p.service = "" THEN o ELSE p.service) \notin AwsServices, "quarantined">>
           b == <<p.location = "unknown", "quarantined">>
           c == <<DatabaseOutOfScope(p), "ignored">>
           d == <<p.family = "Database Instance" /\ p.value # "known", "quarantined">>
<1>1. AwsDatabaseRules(p, o) = <<a, b, c, d>>
  BY DEF AwsDatabaseRules, UnknownService, UnknownLocation
<1>2. a \in Rule /\ b \in Rule /\ c \in Rule /\ d \in Rule
  BY DEF Rule, Results, DatabaseOutOfScope
<1>3. Else(a, Else(b, Else(c, Else(d, "none")))) =
          IF (IF p.service = "" THEN o ELSE p.service) \notin AwsServices THEN "quarantined"
          ELSE IF p.location = "unknown" THEN "quarantined"
          ELSE IF DatabaseOutOfScope(p) THEN "ignored"
          ELSE IF p.family = "Database Instance" /\ p.value # "known" THEN "quarantined"
          ELSE "none"
  BY DEF Else, DatabaseOutOfScope
<1> HIDE DEF a, b, c, d
<1>4. <<a, b, c, d>> \in Seq(Rule) /\ First(<<a, b, c, d>>) = Else(a, Else(b, Else(c, Else(d, "none"))))
  BY <1>2, FourRules
<1> QED
  BY <1>1, <1>3, <1>4

LEMMA DecideIsFirst ==
  ASSUME NEW f, First(f) # "none"
  PROVE  Decide(f) = First(f)
BY DEF First

\* The rule that applies to everything.
LEMMA LastRule ==
  ASSUME NEW r \in Results
  PROVE  << <<TRUE, r>> >> \in Seq(Rule) /\ First(<< <<TRUE, r>> >>) = r
<1> DEFINE a == <<TRUE, r>>
<1>1. a \in Rule /\ a[1] /\ a[2] = r
  BY DEF Rule
<1> HIDE DEF a
<1>2. <<a>> \in Seq(Rule) /\ First(<<a>>) = r
  BY <1>1, OneRule DEF Else
<1> QED
  BY <1>2 DEF a

-----------------------------------------------------------------------------
(* The price list of AWS.                                                   *)

\* The rules of the kind of a product.
AwsKindRules(p, o) ==
  LET kind == AwsKind(p) IN
  CASE kind = "compute"    -> AwsComputeRules(p, o)
    [] kind = "storage"    -> AwsStorageRules(p)
    [] kind = "network"    -> AwsNetworkRules(p)
    [] kind = "nosql"      -> AwsNoSQLRules(p, o)
    [] kind = "kubernetes" -> AwsKubernetesRules(p, o)
    [] kind = "serverless" -> AwsServerlessRules(p, o)
    [] kind = "database"   -> AwsDatabaseRules(p, o)
    [] OTHER               -> << <<TRUE, "ignored">> >>

\* Every product is of a kind.
LEMMA AwsKindIs ==
  ASSUME NEW p
  PROVE  AwsKind(p) \in {"compute", "storage", "network", "nosql", "kubernetes", "serverless",
                         "database", "other"}
<1> DEFINE test == <<IsAwsCompute(p), IsAwsStorage(p), IsAwsNetwork(p), IsAwsNoSQL(p),
                     IsAwsKubernetes(p), IsAwsServerless(p), IsAwsDatabase(p), TRUE>>
           S == {i \in DOMAIN test : test[i]}
<1>1. AwsKind(p) = AwsKinds[Min(S)]
  BY DEF AwsKind
<1>2. DOMAIN test = 1 .. 8 /\ test[8]
  OBVIOUS
<1> HIDE DEF test
<1>3. S \subseteq 1 .. 8 /\ 8 \in S
  BY <1>2
<1> HIDE DEF S
<1>4. Min(S) \in S
  <2>1. S \in SUBSET Nat /\ S # {}
    BY <1>3
  <2> QED
    BY <2>1, MinIsLeast
<1>5. \A i \in 1 .. 8 : AwsKinds[i] \in {"compute", "storage", "network", "nosql", "kubernetes",
                                         "serverless", "database", "other"}
  BY DEF AwsKinds
<1> QED
  BY <1>1, <1>3, <1>4, <1>5

\* A product is kept if none of its rules says otherwise.
LEMMA AwsTriaged ==
  ASSUME NEW p, NEW o
  PROVE  /\ First(AwsKindRules(p, o)) \in {"none", "quarantined", "ignored"}
         /\ Triage(p, o) = IF First(AwsKindRules(p, o)) = "none" THEN "kept" ELSE First(AwsKindRules(p, o))
<1> DEFINE rules == AwsKindRules(p, o)
           kept == << <<TRUE, "kept">> >>
<1>1. Triage(p, o) = Decide(rules \o kept)
  BY DEF Triage, AwsKindRules
<1>2. kept \in Seq(Rule) /\ First(kept) = "kept"
  BY LastRule DEF Results
<1>3. rules \in Seq(Rule) /\ First(rules) \in {"none", "quarantined", "ignored"}
  <2>1. CASE AwsKind(p) = "compute"
    BY <2>1, AwsMachines DEF AwsKindRules
  <2>2. CASE AwsKind(p) = "storage"
    BY <2>2, AwsStorages DEF AwsKindRules
  <2>3. CASE AwsKind(p) = "network"
    BY <2>3, AwsNetworks DEF AwsKindRules
  <2>4. CASE AwsKind(p) = "nosql"
    BY <2>4, AwsDocuments DEF AwsKindRules
  <2>5. CASE AwsKind(p) = "kubernetes"
    BY <2>5, AwsClusters DEF AwsKindRules
  <2>6. CASE AwsKind(p) = "serverless"
    BY <2>6, AwsFunctions DEF AwsKindRules
  <2>7. CASE AwsKind(p) = "database"
    BY <2>7, AwsDatabases DEF AwsKindRules
  <2>8. CASE AwsKind(p) = "other"
    <3>1. rules = << <<TRUE, "ignored">> >>
      BY <2>8 DEF AwsKindRules
    <3> QED
      BY <3>1, LastRule DEF Results
  <2> QED
    BY <2>1, <2>2, <2>3, <2>4, <2>5, <2>6, <2>7, <2>8, AwsKindIs
<1> HIDE DEF rules, kept
<1>4. First(rules \o kept) = IF First(rules) = "none" THEN "kept" ELSE First(rules)
  BY <1>2, <1>3, FirstJoined
<1> QED
  BY <1>1, <1>3, <1>4, DecideIsFirst DEF rules

\* Naming a product leaves it of the kind it is, and in scope or not.
LEMMA AwsNamedIs ==
  ASSUME NEW p \in AwsProducts
  PROVE  /\ AwsKind(AwsNamed(p)) = AwsKind(p)
         /\ NoSQLOutOfScope(AwsNamed(p)) <=> NoSQLOutOfScope(p)
         /\ ServerlessOutOfScope(AwsNamed(p)) <=> ServerlessOutOfScope(p)
         /\ AwsNamed(p).family = p.family /\ AwsNamed(p).location = "known"
         /\ AwsNamed(p).service = IF p.service \in AwsServices THEN p.service ELSE ""
         /\ AwsNamed(p).value = IF p.value = "unknown" THEN "known" ELSE p.value
<1> DEFINE q == AwsNamed(p)
<1>1. p \in [family : STRING, service : STRING, machine : {"", "plain", "other"},
             words : SUBSET STRING, location : {"known", "unknown"}, value : {"", "known", "unknown"}]
  BY AwsAssumption
<1>2. /\ q.family = p.family /\ q.machine = p.machine /\ q.words = p.words /\ q.location = "known"
      /\ q.service = IF p.service \in AwsServices THEN p.service ELSE ""
      /\ q.value = IF p.value = "unknown" THEN "known" ELSE p.value
  BY <1>1 DEF AwsNamed
<1> HIDE DEF q
<1>3. \A service \in AwsServices : q.service = service <=> p.service = service
  BY <1>2 DEF AwsServices
<1>4. /\ q.service = "AWSDataTransfer" <=> p.service = "AWSDataTransfer"
      /\ q.service = "AmazonDynamoDB" <=> p.service = "AmazonDynamoDB"
      /\ q.service = "AmazonEKS" <=> p.service = "AmazonEKS"
      /\ q.service = "AWSLambda" <=> p.service = "AWSLambda"
      /\ q.service = "AmazonRDS" <=> p.service = "AmazonRDS"
      /\ q.service = "AmazonAurora" <=> p.service = "AmazonAurora"
  BY <1>3 DEF AwsServices
<1>5. \A words : Mentions(q, words) = Mentions(p, words)
  BY <1>2 DEF Mentions
<1>6. IsAwsCompute(q) = IsAwsCompute(p)
  BY <1>2 DEF IsAwsCompute
<1>7. IsAwsStorage(q) = IsAwsStorage(p)
  BY <1>2 DEF IsAwsStorage, Mentions
<1>8. IsAwsNetwork(q) = IsAwsNetwork(p)
  BY <1>2, <1>4 DEF IsAwsNetwork, Mentions
<1>9. IsAwsNoSQL(q) = IsAwsNoSQL(p)
  BY <1>2, <1>4 DEF IsAwsNoSQL, Mentions
<1>10. IsAwsKubernetes(q) = IsAwsKubernetes(p)
  BY <1>2, <1>4 DEF IsAwsKubernetes, Mentions
<1>11. IsAwsServerless(q) = IsAwsServerless(p)
  BY <1>2, <1>4 DEF IsAwsServerless, Mentions
<1>12. IsAwsDatabase(q) = IsAwsDatabase(p)
  BY <1>2, <1>4 DEF IsAwsDatabase, Mentions
<1>13. AwsKind(q) = AwsKind(p)
  BY <1>6, <1>7, <1>8, <1>9, <1>10, <1>11, <1>12 DEF AwsKind
<1>14. /\ NoSQLOutOfScope(q) <=> NoSQLOutOfScope(p)
       /\ ServerlessOutOfScope(q) <=> ServerlessOutOfScope(p)
  BY <1>2 DEF NoSQLOutOfScope, ServerlessOutOfScope, Mentions
<1> QED
  BY <1>2, <1>13, <1>14 DEF q

\* What would be kept under a name that is known is quarantined under one that
\* is looked up and not known, whatever the offer code that was read.
LEMMA AwsQuarantines ==
  ASSUME NEW p \in AwsProducts, NEW o, NEW code, Triage(AwsNamed(p), code) = "kept"
  PROVE  IF AwsUnread(p) THEN Triage(p, o) = "kept" \/ p.service = "" ELSE Triage(p, o) = "quarantined"
<1> DEFINE q == AwsNamed(p)
           unread == AwsUnread(p)
           rules == First(AwsKindRules(p, o))
           named == First(AwsKindRules(q, code))
           known == p.service \in AwsServices \/ p.service = ""
           service == IF p.service = "" THEN o ELSE p.service
<1>1. /\ AwsKind(q) = AwsKind(p)
      /\ NoSQLOutOfScope(q) <=> NoSQLOutOfScope(p)
      /\ ServerlessOutOfScope(q) <=> ServerlessOutOfScope(p)
      /\ q.family = p.family /\ q.location = "known"
      /\ q.service = IF p.service \in AwsServices THEN p.service ELSE ""
      /\ q.value = IF p.value = "unknown" THEN "known" ELSE p.value
  BY AwsNamedIs
<1>2. named = "none"
  BY AwsTriaged
<1>3. Triage(p, o) = IF rules = "none" THEN "kept" ELSE rules
  BY AwsTriaged
<1>4. p.location \in {"known", "unknown"} /\ p.value \in {"", "known", "unknown"}
  BY AwsAssumption
<1>5. unread <=> /\ p.location = "known"
                 /\ known \/ AwsKind(p) \in {"storage", "network"}
                 /\ \/ p.value # "unknown" \/ AwsKind(p) \in {"compute", "nosql"}
                    \/ AwsKind(p) = "database" /\ p.family = "Database Storage"
  BY DEF AwsUnread
<1>6. (service \in AwsServices => known) /\ (known /\ p.service # "" => service \in AwsServices)
  OBVIOUS
<1>7. CASE AwsKind(p) = "compute"
  <2>1. AwsKindRules(p, o) = AwsComputeRules(p, o) /\ AwsKindRules(q, code) = AwsComputeRules(q, code)
    BY <1>1, <1>7 DEF AwsKindRules
  <2>2. rules = IF service \notin AwsServices THEN "quarantined"
                ELSE IF p.location = "unknown" THEN "quarantined" ELSE "none"
    BY <2>1, AwsMachines
  <2> HIDE DEF q, unread, rules, named, known, service
  <2> QED
    BY <1>1, <1>3, <1>4, <1>5, <1>6, <1>7, <2>2 DEF known, unread
<1>8. CASE AwsKind(p) = "storage"
  <2>1. AwsKindRules(p, o) = AwsStorageRules(p) /\ AwsKindRules(q, code) = AwsStorageRules(q)
    BY <1>1, <1>8 DEF AwsKindRules
  <2>2. rules = IF p.location = "unknown" THEN "quarantined"
                ELSE IF p.value # "known" THEN "quarantined" ELSE "none"
    BY <2>1, AwsStorages
  <2>3. q.value = "known"
    BY <1>2, <2>1, AwsStorages
  <2> HIDE DEF q, unread, rules, named, known, service
  <2> QED
    BY <1>1, <1>3, <1>4, <1>5, <1>6, <1>8, <2>2, <2>3 DEF known, unread
<1>9. CASE AwsKind(p) = "network"
  <2>1. AwsKindRules(p, o) = AwsNetworkRules(p) /\ AwsKindRules(q, code) = AwsNetworkRules(q)
    BY <1>1, <1>9 DEF AwsKindRules
  <2>2. rules = IF p.location = "unknown" THEN "quarantined"
                ELSE IF p.value = "unknown" THEN "quarantined" ELSE "none"
    BY <2>1, AwsNetworks
  <2>3. q.value # "unknown"
    BY <1>2, <2>1, AwsNetworks
  <2> HIDE DEF q, unread, rules, named, known, service
  <2> QED
    BY <1>1, <1>3, <1>4, <1>5, <1>6, <1>9, <2>2, <2>3 DEF known, unread
<1>10. CASE AwsKind(p) = "nosql"
  <2>1. AwsKindRules(p, o) = AwsNoSQLRules(p, o) /\ AwsKindRules(q, code) = AwsNoSQLRules(q, code)
    BY <1>1, <1>10 DEF AwsKindRules
  <2>2. rules = IF service \notin AwsServices THEN "quarantined"
                ELSE IF p.location = "unknown" THEN "quarantined"
                ELSE IF NoSQLOutOfScope(p) THEN "ignored" ELSE "none"
    BY <2>1, AwsDocuments
  <2>3. ~NoSQLOutOfScope(q)
    BY <1>2, <2>1, AwsDocuments
  <2> HIDE DEF q, unread, rules, named, known, service
  <2> QED
    BY <1>1, <1>3, <1>4, <1>5, <1>6, <1>10, <2>2, <2>3 DEF known, unread
<1>11. CASE AwsKind(p) = "kubernetes"
  <2>1. AwsKindRules(p, o) = AwsKubernetesRules(p, o) /\ AwsKindRules(q, code) = AwsKubernetesRules(q, code)
    BY <1>1, <1>11 DEF AwsKindRules
  <2>2. rules = IF service \notin AwsServices THEN "quarantined"
                ELSE IF p.location = "unknown" THEN "quarantined"
                ELSE IF p.value # "known" THEN "quarantined" ELSE "none"
    BY <2>1, AwsClusters
  <2>3. q.value = "known"
    BY <1>2, <2>1, AwsClusters
  <2> HIDE DEF q, unread, rules, named, known, service
  <2> QED
    BY <1>1, <1>3, <1>4, <1>5, <1>6, <1>11, <2>2, <2>3 DEF known, unread
<1>12. CASE AwsKind(p) = "serverless"
  <2>1. AwsKindRules(p, o) = AwsServerlessRules(p, o) /\ AwsKindRules(q, code) = AwsServerlessRules(q, code)
    BY <1>1, <1>12 DEF AwsKindRules
  <2>2. rules = IF service \notin AwsServices THEN "quarantined"
                ELSE IF ServerlessOutOfScope(p) THEN "ignored"
                ELSE IF p.location = "unknown" THEN "quarantined"
                ELSE IF p.value # "known" THEN "quarantined" ELSE "none"
    BY <2>1, AwsFunctions
  <2>3. ~ServerlessOutOfScope(q) /\ q.value = "known"
    BY <1>2, <2>1, AwsFunctions
  <2> HIDE DEF q, unread, rules, named, known, service
  <2> QED
    BY <1>1, <1>3, <1>4, <1>5, <1>6, <1>12, <2>2, <2>3 DEF known, unread
<1>13. CASE AwsKind(p) = "database"
  <2>1. AwsKindRules(p, o) = AwsDatabaseRules(p, o) /\ AwsKindRules(q, code) = AwsDatabaseRules(q, code)
    BY <1>1, <1>13 DEF AwsKindRules
  <2>2. rules = IF service \notin AwsServices THEN "quarantined"
                ELSE IF p.location = "unknown" THEN "quarantined"
                ELSE IF DatabaseOutOfScope(p) THEN "ignored"
                ELSE IF p.family = "Database Instance" /\ p.value # "known" THEN "quarantined" ELSE "none"
    BY <2>1, AwsDatabases
  <2>3. ~DatabaseOutOfScope(q) /\ ~(q.family = "Database Instance" /\ q.value # "known")
    BY <1>2, <2>1, AwsDatabases
  <2> HIDE DEF q, unread, rules, named, known, service
  <2> QED
    BY <1>1, <1>3, <1>4, <1>5, <1>6, <1>13, <2>2, <2>3 DEF known, unread, DatabaseOutOfScope
<1>14. AwsKind(p) # "other"
  <2>1. ASSUME AwsKind(p) = "other"
        PROVE  FALSE
    <3>1. AwsKindRules(q, code) = << <<TRUE, "ignored">> >>
      BY <1>1, <2>1 DEF AwsKindRules
    <3> QED
      BY <1>2, <3>1, LastRule DEF Results
  <2> QED
    BY <2>1
<1> QED
  BY <1>7, <1>8, <1>9, <1>10, <1>11, <1>12, <1>13, <1>14, AwsKindIs

\* The products are read once, and only those that are kept give a price.
AwsInv ==
  /\ "products" \in awsRead => awsProduct \in AwsProducts /\ \E o : awsVerdict = Triage(awsProduct, o)
  /\ awsOutcome = "observed" => awsVerdict = "kept"

LEMMA AwsInvariant == AwsSpec => []AwsInv
<1>1. AwsInit => AwsInv
  BY DEF AwsInit, AwsInv
<1>2. ASSUME AwsInv, [AwsNext]_awsVars
      PROVE  AwsInv'
  <2>1. CASE ReadOfferCode
    BY <1>2, <2>1 DEF ReadOfferCode, AwsInv
  <2>2. CASE ReadProducts
    BY <1>2, <2>2 DEF ReadProducts, AwsInv, awsReading
  <2>3. CASE ReadTerms
    <3>1. ("products" \in awsRead' <=> "products" \in awsRead) /\ UNCHANGED <<awsProduct, awsVerdict>>
      BY <2>3 DEF ReadTerms
    <3>2. awsOutcome' = "observed" => awsVerdict = "kept"
      BY <2>3 DEF ReadTerms
    <3> QED
      BY <1>2, <3>1, <3>2 DEF AwsInv
  <2>4. CASE AwsDocumentEnds
    BY <1>2, <2>4 DEF AwsDocumentEnds, AwsInv
  <2>5. CASE UNCHANGED awsVars
    BY <1>2, <2>5 DEF awsVars, AwsInv
  <2> QED
    BY <1>2, <2>1, <2>2, <2>3, <2>4, <2>5 DEF AwsNext
<1> QED
  BY <1>1, <1>2, PTL DEF AwsSpec

\* The types of a price list that is read, for every product and every term.
THEOREM AwsTypesCorrect == AwsSpec => []AwsTypeOK
<1>1. AwsInit => AwsTypeOK
  BY DEF AwsInit, AwsTypeOK
<1>2. ASSUME AwsTypeOK, [AwsNext]_awsVars
      PROVE  AwsTypeOK'
  <2>1. CASE ReadOfferCode
    BY <1>2, <2>1 DEF ReadOfferCode, AwsTypeOK
  <2>2. CASE ReadProducts
    <3>1. awsVerdict' \in {"kept", "quarantined", "ignored"}
      BY <2>2, AwsTriaged DEF ReadProducts
    <3> QED
      BY <1>2, <2>2, <3>1 DEF ReadProducts, AwsTypeOK
  <2>3. CASE ReadTerms
    <3>1. awsOutcome' \in {"", "observed", "failed"}
      BY <2>3 DEF ReadTerms
    <3> QED
      BY <1>2, <2>3, <3>1 DEF ReadTerms, AwsTypeOK
  <2>4. CASE AwsDocumentEnds
    BY <1>2, <2>4 DEF AwsDocumentEnds, AwsTypeOK
  <2>5. CASE UNCHANGED awsVars
    BY <1>2, <2>5 DEF awsVars, AwsTypeOK
  <2> QED
    BY <1>2, <2>1, <2>2, <2>3, <2>4, <2>5 DEF AwsNext
<1> QED
  BY <1>1, <1>2, PTL DEF AwsSpec

LEMMA AwsDriftInvariant == AwsSpec => []AwsDriftSurfaces
<1>1. AwsInv => AwsDriftSurfaces
  <2> SUFFICES ASSUME AwsInv, "products" \in awsRead, Triage(AwsNamed(awsProduct), AwsOfferCode) = "kept"
               PROVE  IF AwsUnread(awsProduct) THEN awsVerdict = "kept" \/ awsProduct.service = ""
                      ELSE awsVerdict = "quarantined" /\ awsOutcome # "observed"
    BY DEF AwsDriftSurfaces
  <2>1. PICK o : awsVerdict = Triage(awsProduct, o)
    BY DEF AwsInv
  <2>2. IF AwsUnread(awsProduct) THEN awsVerdict = "kept" \/ awsProduct.service = ""
        ELSE awsVerdict = "quarantined"
    BY <2>1, AwsQuarantines DEF AwsInv
  <2>3. awsOutcome = "observed" => awsVerdict = "kept"
    BY DEF AwsInv
  <2> QED
    BY <2>2, <2>3
<1> QED
  BY <1>1, AwsInvariant, PTL

-----------------------------------------------------------------------------
(* The pages of Azure.                                                      *)

\* What an item may be, whether or not it is in a page.
AzureShapes == [consumption : BOOLEAN, category : AzureCategories \cup {"unknown"},
                region : {"known", "unknown"},
                value : {"known", "unknown"}, unit : {"month", "gigabyte", "hour", "unknown"},
                numeric : BOOLEAN, sized : BOOLEAN, tiered : BOOLEAN, words : SUBSET STRING]

\* What is asked of an item before its category's rules.
AzureFrontRules(i) ==
  << <<~i.consumption, "ignored">>, <<i.category = "unknown", "quarantined">>,
     <<i.region = "unknown", "quarantined">>, <<~i.numeric, "failed">> >>

LEMMA AzureFronts ==
  ASSUME NEW i
  PROVE  /\ AzureFrontRules(i) \in Seq(Rule)
         /\ First(AzureFrontRules(i)) =
              IF ~i.consumption THEN "ignored"
              ELSE IF i.category = "unknown" THEN "quarantined"
              ELSE IF i.region = "unknown" THEN "quarantined"
              ELSE IF ~i.numeric THEN "failed"
              ELSE "none"
<1> DEFINE a == <<~i.consumption, "ignored">>
           b == <<i.category = "unknown", "quarantined">>
           c == <<i.region = "unknown", "quarantined">>
           d == <<~i.numeric, "failed">>
<1>1. AzureFrontRules(i) = <<a, b, c, d>>
  BY DEF AzureFrontRules
<1>2. a \in Rule /\ b \in Rule /\ c \in Rule /\ d \in Rule
  BY DEF Rule, Results
<1>3. Else(a, Else(b, Else(c, Else(d, "none")))) =
          IF ~i.consumption THEN "ignored"
          ELSE IF i.category = "unknown" THEN "quarantined"
          ELSE IF i.region = "unknown" THEN "quarantined"
          ELSE IF ~i.numeric THEN "failed"
          ELSE "none"
  BY DEF Else
<1> HIDE DEF a, b, c, d
<1>4. <<a, b, c, d>> \in Seq(Rule) /\ First(<<a, b, c, d>>) = Else(a, Else(b, Else(c, Else(d, "none"))))
  BY <1>2, FourRules
<1> QED
  BY <1>1, <1>3, <1>4

\* What an item comes to, by its category's rules.
LEMMA AzureCategoryPasses ==
  ASSUME NEW i \in AzureShapes
  PROVE  /\ AzureCategoryRules(i) \in Seq(Rule)
         /\ First(AzureCategoryRules(i)) \in {"none", "ignored", "dropped", "quarantined", "observed"}
<1> DEFINE rules == AzureCategoryRules(i)
<1>1. i.value \in {"known", "unknown"}
  BY DEF AzureShapes
<1>2. CASE i.category = "compute"
  <2>1. rules = AzureComputeRules(i)
    BY <1>2 DEF AzureCategoryRules
  <2> QED
    BY <1>1, <1>2, <2>1, AzureMachines
<1>3. CASE i.category = "storage"
  <2>1. rules = AzureStorageRules(i)
    BY <1>3 DEF AzureCategoryRules
  <2> QED
    BY <1>1, <1>3, <2>1, AzureStorages
<1>4. CASE i.category = "network"
  <2>1. rules = AzureNetworkRules(i)
    BY <1>4 DEF AzureCategoryRules
  <2> QED
    BY <1>1, <1>4, <2>1, AzureNetworks DEF AzureShapes
<1>5. CASE i.category = "database_rdbms"
  <2>1. rules = AzureDatabaseRules(i)
    BY <1>5 DEF AzureCategoryRules
  <2> QED
    BY <1>1, <1>5, <2>1, AzureDatabases
<1>6. CASE i.category = "database_nosql"
  <2>1. rules = AzureNoSQLRules(i)
    BY <1>6 DEF AzureCategoryRules
  <2> QED
    BY <1>6, <2>1, AzureDocuments
<1>7. CASE i.category = "kubernetes"
  <2>1. rules = AzureKubernetesRules(i)
    BY <1>7 DEF AzureCategoryRules
  <2> QED
    BY <1>1, <1>7, <2>1, AzureClusters
<1>8. CASE i.category = "serverless"
  <2>1. rules = AzureServerlessRules(i)
    BY <1>8 DEF AzureCategoryRules
  <2> QED
    BY <1>1, <1>8, <2>1, AzureFunctions
<1>9. CASE i.category = "unknown"
  <2>1. rules = << >>
    BY <1>9 DEF AzureCategoryRules
  <2> QED
    BY <1>9, <2>1, NoRules DEF AzureCategories
<1>10. i.category \in AzureCategories \cup {"unknown"}
  BY DEF AzureShapes
<1> QED
  BY <1>2, <1>3, <1>4, <1>5, <1>6, <1>7, <1>8, <1>9, <1>10 DEF AzureCategories

LEMMA AzureTriaged ==
  ASSUME NEW i \in AzureShapes
  PROVE  AzureTriage(i) = IF First(AzureFrontRules(i)) # "none" THEN First(AzureFrontRules(i))
                          ELSE IF First(AzureCategoryRules(i)) # "none" THEN First(AzureCategoryRules(i))
                          ELSE "observed"
<1> DEFINE front == AzureFrontRules(i)
           rules == AzureCategoryRules(i)
           observed == << <<TRUE, "observed">> >>
<1>1. AzureTriage(i) = Decide(front \o rules \o observed)
  BY DEF AzureTriage, AzureFrontRules
<1>2. observed \in Seq(Rule) /\ First(observed) = "observed"
  BY LastRule DEF Results
<1>3. front \in Seq(Rule) /\ rules \in Seq(Rule)
  BY AzureFronts, AzureCategoryPasses
<1> HIDE DEF front, rules, observed
<1>4. First(front \o rules \o observed) = IF First(front) # "none" THEN First(front)
                                         ELSE IF First(rules) # "none" THEN First(rules) ELSE "observed"
  BY <1>2, <1>3, ThreeLists
<1>5. Decide(front \o rules \o observed) = First(front \o rules \o observed)
  BY <1>4, DecideIsFirst
<1> QED
  BY <1>1, <1>4, <1>5 DEF front, rules

\* Naming an item leaves the rest of it as it is.
LEMMA AzureNamedIs ==
  ASSUME NEW i \in AzureShapes
  PROVE  /\ AzureNamed(i) \in AzureShapes
         /\ AzureNamed(i).region = "known" /\ AzureNamed(i).value = "known"
         /\ AzureNamed(i).unit = IF i.unit = "unknown" THEN "hour" ELSE i.unit
         /\ AzureNamed(i).consumption = i.consumption /\ AzureNamed(i).category = i.category
         /\ AzureNamed(i).numeric = i.numeric /\ AzureNamed(i).sized = i.sized
         /\ AzureNamed(i).tiered = i.tiered /\ AzureNamed(i).words = i.words
BY DEF AzureNamed, AzureShapes

\* An item that its category would take, were its value and unit known, is
\* quarantined if they are looked up and not known, and else is taken.
LEMMA AzureCategoryDrifts ==
  ASSUME NEW i \in AzureShapes, First(AzureCategoryRules(AzureNamed(i))) \in {"none", "observed"},
         i.category \in AzureCategories
  PROVE  First(AzureCategoryRules(i)) \in
           IF /\ i.value = "known" \/ i.category \in {"compute", "database_nosql"}
              /\ i.unit # "unknown" \/ i.category # "serverless"
           THEN {"none", "observed"} ELSE {"quarantined"}
<1> DEFINE q == AzureNamed(i)
           rules == First(AzureCategoryRules(i))
           named == First(AzureCategoryRules(q))
<1>1. /\ q.value = "known" /\ q.unit = IF i.unit = "unknown" THEN "hour" ELSE i.unit
      /\ q.category = i.category /\ q.sized = i.sized /\ q.tiered = i.tiered
      /\ i.tiered \in BOOLEAN /\ i.value \in {"known", "unknown"}
  BY AzureNamedIs DEF AzureShapes
<1>2. \A words : AzureMentions(q, words) <=> AzureMentions(i, words)
  BY AzureNamedIs DEF AzureMentions
<1>3. named \in {"none", "observed"}
  OBVIOUS
<1> HIDE DEF q
<1>4. CASE i.category = "compute"
  <2>1. AzureCategoryRules(i) = AzureComputeRules(i) /\ AzureCategoryRules(q) = AzureComputeRules(q)
    BY <1>1, <1>4 DEF AzureCategoryRules
  <2> QED
    BY <1>1, <1>2, <1>3, <1>4, <2>1, AzureMachines
<1>5. CASE i.category = "storage"
  <2>1. AzureCategoryRules(i) = AzureStorageRules(i) /\ AzureCategoryRules(q) = AzureStorageRules(q)
    BY <1>1, <1>5 DEF AzureCategoryRules
  <2> QED
    BY <1>1, <1>2, <1>3, <1>5, <2>1, AzureStorages
<1>6. CASE i.category = "network"
  <2>1. AzureCategoryRules(i) = AzureNetworkRules(i) /\ AzureCategoryRules(q) = AzureNetworkRules(q)
    BY <1>1, <1>6 DEF AzureCategoryRules
  <2> QED
    BY <1>1, <1>2, <1>3, <1>6, <2>1, AzureNetworks
<1>7. CASE i.category = "database_rdbms"
  <2>1. AzureCategoryRules(i) = AzureDatabaseRules(i) /\ AzureCategoryRules(q) = AzureDatabaseRules(q)
    BY <1>1, <1>7 DEF AzureCategoryRules
  <2> QED
    BY <1>1, <1>2, <1>3, <1>7, <2>1, AzureDatabases
<1>8. CASE i.category = "database_nosql"
  <2>1. AzureCategoryRules(i) = AzureNoSQLRules(i) /\ AzureCategoryRules(q) = AzureNoSQLRules(q)
    BY <1>1, <1>8 DEF AzureCategoryRules
  <2> QED
    BY <1>1, <1>2, <1>3, <1>8, <2>1, AzureDocuments
<1>9. CASE i.category = "kubernetes"
  <2>1. AzureCategoryRules(i) = AzureKubernetesRules(i) /\ AzureCategoryRules(q) = AzureKubernetesRules(q)
    BY <1>1, <1>9 DEF AzureCategoryRules
  <2> QED
    BY <1>1, <1>2, <1>3, <1>9, <2>1, AzureClusters
<1>10. CASE i.category = "serverless"
  <2>1. AzureCategoryRules(i) = AzureServerlessRules(i) /\ AzureCategoryRules(q) = AzureServerlessRules(q)
    BY <1>1, <1>10 DEF AzureCategoryRules
  <2> QED
    BY <1>1, <1>2, <1>3, <1>10, <2>1, AzureFunctions
<1> QED
  BY <1>4, <1>5, <1>6, <1>7, <1>8, <1>9, <1>10 DEF AzureCategories

LEMMA AzureDrifts ==
  ASSUME NEW i \in AzureItems
  PROVE  /\ AzureTriage(i) \in AzureVerdicts
         /\ i.consumption /\ "unknown" \in {i.category, i.region} => AzureTriage(i) = "quarantined"
         /\ AzureTriage(AzureNamed(i)) = "observed" =>
              AzureTriage(i) = IF AzureUnread(i) THEN "observed" ELSE "quarantined"
<1> DEFINE q == AzureNamed(i)
           front == First(AzureFrontRules(i))
           rules == First(AzureCategoryRules(i))
           namedFront == First(AzureFrontRules(q))
           named == First(AzureCategoryRules(q))
           lookedUp == /\ i.value = "known" \/ i.category \in {"compute", "database_nosql"}
                       /\ i.unit # "unknown" \/ i.category # "serverless"
<1>0. i \in AzureShapes
  BY AzureAssumption DEF AzureShapes
<1>1. front = IF ~i.consumption THEN "ignored"
              ELSE IF i.category = "unknown" THEN "quarantined"
              ELSE IF i.region = "unknown" THEN "quarantined"
              ELSE IF ~i.numeric THEN "failed" ELSE "none"
  BY AzureFronts
<1>2. rules \in {"none", "ignored", "dropped", "quarantined", "observed"}
  BY <1>0, AzureCategoryPasses
<1>3. AzureTriage(i) = IF front # "none" THEN front ELSE IF rules # "none" THEN rules ELSE "observed"
  BY <1>0, AzureTriaged
<1>4. AzureTriage(q) = IF namedFront # "none" THEN namedFront ELSE IF named # "none" THEN named ELSE "observed"
  BY <1>0, AzureNamedIs, AzureTriaged
<1>5. i.category \in AzureCategories \cup {"unknown"} /\ i.region \in {"known", "unknown"}
  BY <1>0 DEF AzureShapes
<1>6. namedFront = IF ~i.consumption THEN "ignored"
                   ELSE IF i.category = "unknown" THEN "quarantined"
                   ELSE IF ~i.numeric THEN "failed" ELSE "none"
  <2>1. q.region = "known" /\ q.consumption = i.consumption /\ q.category = i.category /\ q.numeric = i.numeric
    BY <1>0, AzureNamedIs
  <2> HIDE DEF q
  <2> QED
    BY <2>1, AzureFronts
<1>7. named \in {"none", "observed"} /\ i.category \in AzureCategories =>
        rules \in IF lookedUp THEN {"none", "observed"} ELSE {"quarantined"}
  BY <1>0, AzureCategoryDrifts
<1>8. AzureUnread(i) <=> i.region = "known" /\ lookedUp
  BY DEF AzureUnread
<1> HIDE DEF q, front, rules, namedFront, named, lookedUp
<1>9. AzureTriage(q) = "observed" => AzureTriage(i) = IF AzureUnread(i) THEN "observed" ELSE "quarantined"
  BY <1>1, <1>2, <1>3, <1>4, <1>5, <1>6, <1>7, <1>8
<1>10. /\ AzureTriage(i) \in AzureVerdicts
       /\ i.consumption /\ "unknown" \in {i.category, i.region} => AzureTriage(i) = "quarantined"
  BY <1>1, <1>2, <1>3 DEF AzureVerdicts
<1> QED
  BY <1>9, <1>10 DEF q

\* The verdict is that of the item which was read last.
AzureInv == azureVerdict # "" => azureItem \in AzureItems /\ azureVerdict = AzureTriage(azureItem)

LEMMA AzureInvariant == AzureSpec => []AzureInv
<1>1. AzureInit => AzureInv
  BY DEF AzureInit, AzureInv
<1>2. AzureInv /\ [AzureNext]_azureVars => AzureInv'
  BY DEF AzureInv, AzureNext, ReadItem, AzurePageEnds, azureVars
<1> QED
  BY <1>1, <1>2, PTL DEF AzureSpec

\* The types of a page, whose counts do not go beyond its items.
THEOREM AzureTypesCorrect == AzureSpec => []AzureTypeOK
<1> DEFINE counts == {"observed", "quarantined", "ignored", "dropped"}
<1>1. AzureInit => AzureTypeOK
  <2>1. AzurePageSize \in Nat
    BY AzureAssumption
  <2>2. 0 \in 0..AzurePageSize
    BY <2>1
  <2> QED
    BY <2>2, Zenon DEF AzureInit, AzureTypeOK, AzureVerdicts
<1>2. ASSUME AzureTypeOK, [AzureNext]_azureVars
      PROVE  AzureTypeOK'
  <2>1. CASE ReadItem
    <3>1. azureItem' \in AzureItems /\ azureVerdict' \in AzureVerdicts
      BY <2>1, AzureDrifts DEF ReadItem
    <3>2. CASE azureVerdict' = "failed"
      BY <1>2, <2>1, <3>1, <3>2 DEF ReadItem, AzureTypeOK
    <3>3. CASE azureVerdict' # "failed"
      <4>1. azureVerdict' \in counts
        BY <3>1, <3>3 DEF AzureVerdicts
      <4>2. /\ azurePage \in [counts -> 0..AzurePageSize] /\ azureRead < AzurePageSize
            /\ azurePage' = [azurePage EXCEPT ![azureVerdict'] = @ + 1]
            /\ azureOutcome' = azureOutcome
        BY <1>2, <2>1, <3>3 DEF ReadItem, AzureTypeOK
      <4>3. \A c \in counts : azurePage[c] \in Nat /\ azurePage[c] <= AzurePageSize
        BY <4>2
      <4>4. \A c \in counts : azurePage[c] + 1 \in 0..AzurePageSize
        BY <4>2, <4>3, AzureAssumption DEF azureRead
      <4>5. azurePage' \in [counts -> 0..AzurePageSize]
        BY <4>1, <4>2, <4>4
      <4> QED
        BY <1>2, <3>1, <4>2, <4>5 DEF AzureTypeOK
    <3> QED
      BY <3>2, <3>3
  <2>2. CASE AzurePageEnds
    BY <1>2, <2>2 DEF AzurePageEnds, AzureTypeOK
  <2>3. CASE UNCHANGED azureVars
    BY <1>2, <2>3 DEF azureVars, AzureTypeOK
  <2> QED
    BY <1>2, <2>1, <2>2, <2>3 DEF AzureNext
<1> QED
  BY <1>1, <1>2, PTL DEF AzureSpec

LEMMA AzureDriftInvariant == AzureSpec => []AzureDriftSurfaces
<1>1. AzureInv => AzureDriftSurfaces
  BY AzureDrifts DEF AzureInv, AzureDriftSurfaces
<1> QED
  BY <1>1, AzureInvariant, PTL

-----------------------------------------------------------------------------
(* The pages of GCP.                                                        *)

\* The rules that a SKU is triaged by.
GcpRulesOf(s) == IF s.category = "compute" /\ IsGcpNetwork(s) THEN GcpNetworkRules(s)
                 ELSE IF s.category = "" THEN << >> ELSE GcpCategoryRules(s)

GcpFrontRules(s, target) ==
  << <<s.category = "", "ignored">>,
     <<(s.category = "compute" /\ IsGcpNetwork(s)) /\ target = "compute", "ignored">>,
     <<s.category # target /\ ~(s.category = "compute" /\ IsGcpNetwork(s)), "ignored">> >>

LEMMA GcpFronts ==
  ASSUME NEW s, NEW target
  PROVE  /\ GcpFrontRules(s, target) \in Seq(Rule)
         /\ First(GcpFrontRules(s, target)) =
              IF s.category = "" THEN "ignored"
              ELSE IF (s.category = "compute" /\ IsGcpNetwork(s)) /\ target = "compute" THEN "ignored"
              ELSE IF s.category # target /\ ~(s.category = "compute" /\ IsGcpNetwork(s)) THEN "ignored"
              ELSE "none"
<1> DEFINE a == <<s.category = "", "ignored">>
           b == <<(s.category = "compute" /\ IsGcpNetwork(s)) /\ target = "compute", "ignored">>
           c == <<s.category # target /\ ~(s.category = "compute" /\ IsGcpNetwork(s)), "ignored">>
<1>1. GcpFrontRules(s, target) = <<a, b, c>>
  BY DEF GcpFrontRules
<1>2. a \in Rule /\ b \in Rule /\ c \in Rule
  BY DEF Rule, Results
<1>3. Else(a, Else(b, Else(c, "none"))) =
          IF s.category = "" THEN "ignored"
          ELSE IF (s.category = "compute" /\ IsGcpNetwork(s)) /\ target = "compute" THEN "ignored"
          ELSE IF s.category # target /\ ~(s.category = "compute" /\ IsGcpNetwork(s)) THEN "ignored"
          ELSE "none"
  BY DEF Else
<1> HIDE DEF a, b, c
<1>4. <<a, b, c>> \in Seq(Rule) /\ First(<<a, b, c>>) = Else(a, Else(b, Else(c, "none")))
  BY <1>2, ThreeRules
<1> QED
  BY <1>1, <1>3, <1>4

\* What the rules of a SKU come to.
LEMMA GcpRulesPassed ==
  ASSUME NEW s
  PROVE  /\ GcpRulesOf(s) \in Seq(Rule)
         /\ First(GcpRulesOf(s)) \in {"none", "nothing", "failed", "quarantined"}
<1> DEFINE rules == GcpRulesOf(s)
           price == First(GcpPriceRules(s.price))
           paid == First(GcpPriceRules(GcpFirstPaid(s)))
           region == First(GcpRegionRules(s))
<1>1. price \in {"none", "nothing", "failed"} /\ paid \in {"none", "nothing", "failed"}
  BY GcpPriceFirst
<1>2. region \in {"none", "nothing", "quarantined"}
  BY GcpRegionFirst
<1> HIDE DEF price, paid, region
<1>3. CASE s.category = "compute" /\ IsGcpNetwork(s)
  <2>1. rules = GcpNetworkRules(s)
    BY <1>3 DEF GcpRulesOf
  <2> QED
    BY <1>1, <1>2, <1>3, <2>1, GcpEgress DEF price, region
<1>4. CASE s.category = ""
  <2>1. rules = << >>
    BY <1>4 DEF GcpRulesOf
  <2> QED
    BY <1>4, <2>1, NoRules
<1>5. CASE ~(s.category = "compute" /\ IsGcpNetwork(s)) /\ s.category # ""
  <2>0. rules = GcpCategoryRules(s)
    BY <1>5 DEF GcpRulesOf
  <2>1. CASE s.category = "compute"
    <3>1. rules = GcpComputeRules(s)
      BY <2>0, <2>1 DEF GcpCategoryRules
    <3> QED
      BY <1>1, <1>2, <2>1, <3>1, GcpMachines DEF price, region
  <2>2. CASE s.category = "storage"
    <3>1. rules = GcpStorageRules(s)
      BY <2>0, <2>2 DEF GcpCategoryRules
    <3> QED
      BY <1>1, <1>2, <2>2, <3>1, GcpStorages DEF price, region
  <2>3. CASE s.category = "network"
    <3>1. rules = GcpNetworkRules(s)
      BY <2>0, <2>3 DEF GcpCategoryRules
    <3> QED
      BY <1>1, <1>2, <2>3, <3>1, GcpEgress DEF price, region
  <2>4. CASE s.category = "database_rdbms"
    <3>1. rules = GcpDatabaseRules(s)
      BY <2>0, <2>4 DEF GcpCategoryRules
    <3> QED
      BY <1>1, <1>2, <2>4, <3>1, GcpDatabases DEF price, region
  <2>5. CASE s.category = "database_nosql"
    <3>1. rules = GcpNoSQLRules(s)
      BY <2>0, <2>5 DEF GcpCategoryRules
    <3> QED
      BY <1>1, <1>2, <2>5, <3>1, GcpDocuments DEF price, region
  <2>6. CASE s.category = "kubernetes"
    <3>1. rules = GcpKubernetesRules(s)
      BY <2>0, <2>6 DEF GcpCategoryRules
    <3> QED
      BY <1>1, <1>2, <2>6, <3>1, GcpClusters DEF price, region
  <2>7. CASE s.category \notin {"compute", "storage", "network", "database_rdbms", "database_nosql",
                               "kubernetes"}
    <3>1. rules = GcpServerlessRules(s)
      BY <2>0, <2>7 DEF GcpCategoryRules
    <3> QED
      BY <1>1, <1>2, <2>7, <3>1, GcpFunctions DEF paid, region
  <2> QED
    BY <2>1, <2>2, <2>3, <2>4, <2>5, <2>6, <2>7
<1> QED
  BY <1>3, <1>4, <1>5

LEMMA GcpTriaged ==
  ASSUME NEW s, NEW target
  PROVE  GcpTriage(s, target) = IF First(GcpFrontRules(s, target)) # "none"
                                THEN First(GcpFrontRules(s, target))
                                ELSE IF First(GcpRulesOf(s)) # "none" THEN First(GcpRulesOf(s))
                                ELSE "observed"
<1> DEFINE front == GcpFrontRules(s, target)
           rules == GcpRulesOf(s)
           observed == << <<TRUE, "observed">> >>
<1>1. GcpTriage(s, target) = Decide(front \o rules \o observed)
  BY DEF GcpTriage, GcpFrontRules, GcpRulesOf
<1>2. observed \in Seq(Rule) /\ First(observed) = "observed"
  BY LastRule DEF Results
<1>3. front \in Seq(Rule) /\ rules \in Seq(Rule)
  BY GcpFronts, GcpRulesPassed
<1> HIDE DEF front, rules, observed
<1>4. First(front \o rules \o observed) = IF First(front) # "none" THEN First(front)
                                         ELSE IF First(rules) # "none" THEN First(rules) ELSE "observed"
  BY <1>2, <1>3, ThreeLists
<1>5. Decide(front \o rules \o observed) = First(front \o rules \o observed)
  BY <1>4, DecideIsFirst
<1> QED
  BY <1>1, <1>4, <1>5 DEF front, rules

\* What a SKU may be, whether or not it is in a stream.
GcpShapes == [category : GcpCategories \cup {""}, onDemand : BOOLEAN, family : {"", "Compute", "other"},
              price : {"none", "invalid", "zero"} \cup GcpPrices, tiered : BOOLEAN,
              later : {"none", "invalid"} \cup GcpPrices,
              unit : {"hour", "month", "count", "gigabyte"}, region : {"hub", "other", "unknown"},
              value : {"known", "unknown"}, shaped : BOOLEAN, words : SUBSET STRING]

\* Naming a SKU leaves what it is as it is, but for the components of a database,
\* which are not, once they name a machine type.
LEMMA GcpNamedIs ==
  ASSUME NEW s \in GcpShapes
  PROVE  LET q == GcpNamed(s)
             shaped == s.shaped \/ ((GcpMachine(s) \/ s.category = "database_rdbms") /\ ~GcpPart(s)) IN
         /\ q.category = s.category /\ q.price = s.price /\ q.tiered = s.tiered /\ q.unit = s.unit
         /\ q.words = s.words /\ GcpFirstPaid(q) = GcpFirstPaid(s)
         /\ q.region = IF s.region = "unknown" THEN "hub" ELSE s.region
         /\ q.value = "known" /\ (q.shaped <=> shaped)
         /\ s # q => s.region = "unknown" \/ s.value = "unknown" \/ (shaped /\ ~s.shaped)
         /\ IsGcpNetwork(q) <=> IsGcpNetwork(s)
         /\ IsGcpComputeInstance(q) <=> IsGcpComputeInstance(s)
         /\ IsGcpComputeComponent(q) <=> IsGcpComputeComponent(s)
         /\ IsGcpStorage(q) <=> IsGcpStorage(s)
         /\ IsGcpKubernetes(q) <=> IsGcpKubernetes(s)
         /\ IsGcpDatabase(q) <=> IsGcpDatabase(s)
         /\ IsOutOfScopeDatabase(q) <=> IsOutOfScopeDatabase(s)
         /\ IsGcpDatabaseStorage(q) <=> IsGcpDatabaseStorage(s)
         /\ IsOutOfScopeServerless(q) <=> IsOutOfScopeServerless(s)
         /\ IsGcpDatabaseComponent(q) <=> (IsGcpDatabaseComponent(s) /\ ~shaped)
<1> DEFINE q == GcpNamed(s)
           shaped == s.shaped \/ ((GcpMachine(s) \/ s.category = "database_rdbms") /\ ~GcpPart(s))
<1>0. shaped \in BOOLEAN /\ s.shaped \in BOOLEAN
  BY DEF GcpShapes, GcpMachine, GcpPart
<1>1. q = [s EXCEPT !.region = IF s.region = "unknown" THEN "hub" ELSE s.region, !.value = "known",
                    !.shaped = shaped]
  BY DEF GcpNamed
<1> HIDE DEF q, shaped
<1>2. /\ q.category = s.category /\ q.price = s.price /\ q.tiered = s.tiered /\ q.unit = s.unit
      /\ q.words = s.words /\ q.later = s.later /\ q.onDemand = s.onDemand /\ q.family = s.family
      /\ q.region = IF s.region = "unknown" THEN "hub" ELSE s.region
      /\ q.value = "known" /\ q.shaped = shaped
  BY <1>1 DEF GcpShapes
<1>3. ASSUME s.region # "unknown", s.value # "unknown", shaped = s.shaped
      PROVE  s = q
  <2>1. s.value = "known"
    BY <1>3 DEF GcpShapes
  <2>2. q = [s EXCEPT !.region = s.region, !.value = s.value, !.shaped = s.shaped]
    BY <1>1, <1>3, <2>1
  <2> QED
    BY <2>2 DEF GcpShapes
<1>4. s.shaped => shaped
  BY DEF shaped
<1>5. s # q => s.region = "unknown" \/ s.value = "unknown" \/ (shaped /\ ~s.shaped)
  BY <1>0, <1>3, <1>4
<1>6. GcpFirstPaid(q) = GcpFirstPaid(s)
  BY <1>2 DEF GcpFirstPaid
<1>7. \A words : GcpMentions(q, words) <=> GcpMentions(s, words)
  BY <1>2 DEF GcpMentions
<1>8. /\ IsGcpNetwork(q) <=> IsGcpNetwork(s)
      /\ IsGcpComputeInstance(q) <=> IsGcpComputeInstance(s)
      /\ IsGcpComputeComponent(q) <=> IsGcpComputeComponent(s)
  BY <1>2, <1>7 DEF IsGcpNetwork, IsGcpComputeInstance, IsGcpComputeComponent, GcpMentions
<1>9. /\ IsGcpStorage(q) <=> IsGcpStorage(s)
      /\ IsGcpKubernetes(q) <=> IsGcpKubernetes(s)
      /\ IsGcpDatabase(q) <=> IsGcpDatabase(s)
  BY <1>2, <1>7 DEF IsGcpStorage, IsGcpKubernetes, IsGcpDatabase
<1>10. /\ IsOutOfScopeDatabase(q) <=> IsOutOfScopeDatabase(s)
       /\ IsOutOfScopeServerless(q) <=> IsOutOfScopeServerless(s)
  BY <1>7 DEF IsOutOfScopeDatabase, IsOutOfScopeServerless
<1>11. IsGcpDatabaseStorage(q) <=> IsGcpDatabaseStorage(s)
  BY <1>2, <1>7, <1>10 DEF IsGcpDatabaseStorage
<1>12. IsGcpDatabaseComponent(q) <=> (IsGcpDatabaseComponent(s) /\ ~shaped)
  BY <1>2, <1>4, <1>7, <1>10, <1>11 DEF IsGcpDatabaseComponent
<1> QED
  BY <1>2, <1>5, <1>6, <1>8, <1>9, <1>10, <1>11, <1>12 DEF q, shaped

\* The verdict is that of the SKU which was read last.
GcpVerdictInv ==
  /\ gcpTarget = "" => gcpVerdict = ""
  /\ gcpVerdict # "" => /\ gcpSku \in GcpSkus
                        /\ gcpVerdict = GcpCount(gcpSku, GcpTriage(gcpSku, gcpTarget))

LEMMA GcpVerdictInvariant == GcpSpec => []GcpVerdictInv
<1>1. GcpInit => GcpVerdictInv
  BY DEF GcpInit, GcpVerdictInv
<1>2. GcpVerdictInv /\ [GcpNext]_gcpVars => GcpVerdictInv'
  BY DEF GcpVerdictInv, GcpNext, GcpStreamStarts, ReadSku, GcpPageEnds, GcpStreamEnds, gcpReading, gcpVars
<1> QED
  BY <1>1, <1>2, PTL DEF GcpSpec

\* The types of a stream: its verdicts, its position, and the prices of parts.
THEOREM GcpTypesCorrect == GcpSpec => []GcpTypeOK
<1>0. GcpPages \in Nat /\ GcpPageSkus \in Nat
  BY GcpAssumption
<1>1. GcpInit => GcpTypeOK
  <2> SUFFICES ASSUME GcpInit
               PROVE  GcpTypeOK
    OBVIOUS
  <2>1. gcpAt \in [pages : 0..GcpPages, skus : 0..GcpPageSkus]
    <3>1. 0 \in 0..GcpPages /\ 0 \in 0..GcpPageSkus
      BY <1>0
    <3> QED
      BY <3>1 DEF GcpInit
  <2>2. gcpParts \in [GcpPartNames -> GcpPrices \cup {""}]
    BY DEF GcpInit
  <2> QED
    BY <2>1, <2>2 DEF GcpInit, GcpTypeOK
<1>2. ASSUME GcpTypeOK, [GcpNext]_gcpVars
      PROVE  GcpTypeOK'
  <2>1. CASE GcpStreamStarts
    BY <1>2, <2>1 DEF GcpStreamStarts, GcpTypeOK
  <2>2. CASE ReadSku
    <3> DEFINE verdict == GcpTriage(gcpSku', gcpTarget)
               parts == IF GcpCollects(gcpSku', gcpTarget) THEN GcpPartsOf(gcpSku') ELSE {}
    <3>1. /\ gcpSku' \in GcpSkus /\ gcpTarget' = gcpTarget
          /\ gcpAt.skus < GcpPageSkus /\ gcpAt' = [gcpAt EXCEPT !.skus = @ + 1]
          /\ gcpVerdict' = GcpCount(gcpSku', verdict)
          /\ gcpParts' = [part \in GcpPartNames |-> IF part \in parts THEN gcpSku'.price ELSE gcpParts[part]]
          /\ gcpOffered' = gcpOffered \cup (parts \X {gcpSku'.price})
          /\ gcpOutcome' \in {"failed", ""}
      BY <2>2 DEF ReadSku
    <3>2. verdict \in {"observed", "quarantined", "ignored", "nothing", "failed"}
      BY GcpTriaged, GcpFronts, GcpRulesPassed
    <3>3. parts \subseteq GcpPartNames /\ (parts # {} => gcpSku'.price \in GcpPrices)
      BY DEF GcpPartsOf, GcpCollects
    <3> HIDE DEF verdict, parts
    <3>4. gcpVerdict' \in {"observed", "quarantined", "ignored", "nothing", "failed"}
      BY <3>1, <3>2 DEF GcpCount
    <3>5. gcpAt' \in [pages : 0..GcpPages, skus : 0..GcpPageSkus]
      <4>1. gcpAt \in [pages : 0..GcpPages, skus : 0..GcpPageSkus]
        BY <1>2 DEF GcpTypeOK
      <4>2. gcpAt.skus \in 0..GcpPageSkus /\ gcpAt.skus < GcpPageSkus
        BY <3>1, <4>1
      <4>3. gcpAt.skus + 1 \in 0..GcpPageSkus
        BY <1>0, <4>2
      <4> QED
        BY <3>1, <4>1, <4>3
    <3>6. gcpParts' \in [GcpPartNames -> GcpPrices \cup {""}]
      BY <1>2, <3>1, <3>3 DEF GcpTypeOK
    <3>7. gcpOffered' \subseteq GcpPartNames \X GcpPrices
      BY <1>2, <3>1, <3>3 DEF GcpTypeOK
    <3> QED
      BY <1>2, <3>1, <3>4, <3>5, <3>6, <3>7 DEF GcpTypeOK
  <2>3. CASE GcpPageEnds
    <3>1. gcpAt \in [pages : 0..GcpPages, skus : 0..GcpPageSkus]
      BY <1>2 DEF GcpTypeOK
    <3>2. gcpAt.pages < GcpPages /\ gcpAt' = [pages |-> gcpAt.pages + 1, skus |-> 0]
      BY <2>3 DEF GcpPageEnds
    <3>3. gcpAt.pages + 1 \in 0..GcpPages /\ 0 \in 0..GcpPageSkus
      BY <1>0, <3>1, <3>2
    <3>4. gcpAt' \in [pages : 0..GcpPages, skus : 0..GcpPageSkus]
      BY <3>2, <3>3
    <3> QED
      BY <1>2, <2>3, <3>4 DEF GcpPageEnds, GcpTypeOK
  <2>4. CASE GcpStreamEnds
    <3>1. gcpOutcome' \in {"composed", "direct"}
      BY <2>4 DEF GcpStreamEnds
    <3> QED
      BY <1>2, <2>4, <3>1 DEF GcpStreamEnds, GcpTypeOK
  <2>5. CASE UNCHANGED gcpVars
    BY <1>2, <2>5 DEF gcpVars, GcpTypeOK
  <2> QED
    BY <1>2, <2>1, <2>2, <2>3, <2>4, <2>5 DEF GcpNext
<1> QED
  BY <1>1, <1>2, PTL DEF GcpSpec

\* A SKU that would be a price under names that are known is quarantined under
\* names that are looked up and not known, unless it is passed over.
LEMMA GcpPricesDrift ==
  ASSUME NEW s \in GcpShapes, NEW target, s # GcpNamed(s), GcpTriage(GcpNamed(s), target) = "observed"
  PROVE  GcpTriage(s, target) = IF GcpPassedOver(s) THEN "nothing"
                                ELSE IF GcpUnread(s) THEN "observed" ELSE "quarantined"
<1> DEFINE q == GcpNamed(s)
           shaped == s.shaped \/ ((GcpMachine(s) \/ s.category = "database_rdbms") /\ ~GcpPart(s))
           rules == First(GcpRulesOf(s))
           named == First(GcpRulesOf(q))
           verdict == IF rules # "none" THEN rules ELSE "observed"
           drift == verdict = IF GcpPassedOver(s) THEN "nothing"
                              ELSE IF GcpUnread(s) THEN "observed" ELSE "quarantined"
<1>1. /\ q.category = s.category /\ q.price = s.price /\ q.tiered = s.tiered /\ q.unit = s.unit
      /\ q.words = s.words /\ GcpFirstPaid(q) = GcpFirstPaid(s)
      /\ q.region = IF s.region = "unknown" THEN "hub" ELSE s.region
      /\ q.value = "known" /\ (q.shaped <=> shaped)
      /\ s.region = "unknown" \/ s.value = "unknown" \/ (shaped /\ ~s.shaped)
      /\ IsGcpNetwork(q) <=> IsGcpNetwork(s)
      /\ IsGcpComputeInstance(q) <=> IsGcpComputeInstance(s)
      /\ IsGcpStorage(q) <=> IsGcpStorage(s)
      /\ IsGcpKubernetes(q) <=> IsGcpKubernetes(s)
      /\ IsGcpDatabase(q) <=> IsGcpDatabase(s)
      /\ IsOutOfScopeDatabase(q) <=> IsOutOfScopeDatabase(s)
      /\ IsGcpDatabaseStorage(q) <=> IsGcpDatabaseStorage(s)
      /\ IsOutOfScopeServerless(q) <=> IsOutOfScopeServerless(s)
      /\ IsGcpDatabaseComponent(q) <=> (IsGcpDatabaseComponent(s) /\ ~shaped)
  BY GcpNamedIs
<1>2. \A words : GcpMentions(q, words) <=> GcpMentions(s, words)
  BY <1>1 DEF GcpMentions
<1>3. /\ First(GcpFrontRules(s, target)) = "none" /\ named = "none" /\ s.category # ""
      /\ GcpTriage(s, target) = verdict
  <2>1. First(GcpFrontRules(q, target)) = First(GcpFrontRules(s, target))
    <3>1. q.category = s.category /\ (IsGcpNetwork(q) <=> IsGcpNetwork(s))
      BY <1>1
    <3>2. First(GcpFrontRules(s, target)) =
              IF s.category = "" THEN "ignored"
              ELSE IF (s.category = "compute" /\ IsGcpNetwork(s)) /\ target = "compute" THEN "ignored"
              ELSE IF s.category # target /\ ~(s.category = "compute" /\ IsGcpNetwork(s)) THEN "ignored"
              ELSE "none"
      BY GcpFronts
    <3> HIDE DEF q
    <3>3. First(GcpFrontRules(q, target)) =
              IF q.category = "" THEN "ignored"
              ELSE IF (q.category = "compute" /\ IsGcpNetwork(q)) /\ target = "compute" THEN "ignored"
              ELSE IF q.category # target /\ ~(q.category = "compute" /\ IsGcpNetwork(q)) THEN "ignored"
              ELSE "none"
      BY GcpFronts
    <3> QED
      BY <3>1, <3>2, <3>3
  <2>2. /\ First(GcpFrontRules(s, target)) \in {"none", "ignored"}
        /\ First(GcpFrontRules(s, target)) = "none" => s.category # ""
    BY GcpFronts
  <2>3. "observed" = IF First(GcpFrontRules(q, target)) # "none" THEN First(GcpFrontRules(q, target))
                     ELSE IF named # "none" THEN named ELSE "observed"
    BY GcpTriaged
  <2>4. named \in {"none", "nothing", "failed", "quarantined"}
    BY GcpRulesPassed
  <2>5. GcpTriage(s, target) = IF First(GcpFrontRules(s, target)) # "none" THEN First(GcpFrontRules(s, target))
                               ELSE verdict
    BY GcpTriaged
  <2> HIDE DEF q, rules, named, verdict
  <2> QED
    BY <2>1, <2>2, <2>3, <2>4, <2>5
<1>4. /\ s.value \in {"known", "unknown"} /\ s.region \in {"hub", "other", "unknown"}
      /\ s.category \in GcpCategories
  BY <1>3 DEF GcpShapes
<1>5. /\ First(GcpRegionRules(s)) = IF s.region = "unknown" THEN "quarantined"
                                    ELSE IF s.region = "other" THEN "nothing" ELSE "none"
      /\ First(GcpRegionRules(q)) = IF s.region = "other" THEN "nothing" ELSE "none"
  BY <1>1, GcpRegionFirst
<1>6. SUFFICES drift
  BY <1>3
<1> HIDE DEF q
<1>7. CASE s.category = "compute" /\ IsGcpNetwork(s)
  <2>1. GcpRulesOf(s) = GcpNetworkRules(s) /\ GcpRulesOf(q) = GcpNetworkRules(q)
    BY <1>1, <1>7 DEF GcpRulesOf
  <2>2. ~GcpMachine(s) /\ ~GcpPart(s)
    BY <1>7 DEF GcpMachine, GcpPart
  <2> QED
    BY <1>1, <1>3, <1>4, <1>7, <2>1, <2>2, GcpEgress DEF GcpPassedOver, GcpUnread
<1>8. CASE s.category = "compute" /\ ~IsGcpNetwork(s)
  <2>1. GcpRulesOf(s) = GcpComputeRules(s) /\ GcpRulesOf(q) = GcpComputeRules(q)
    BY <1>1, <1>8 DEF GcpRulesOf, GcpCategoryRules
  <2>2. GcpMachine(s)
    BY <1>8 DEF GcpMachine
  <2> QED
    BY <1>1, <1>3, <1>4, <1>5, <1>8, <2>1, <2>2, GcpMachines DEF GcpPassedOver, GcpUnread
<1>9. CASE s.category = "storage"
  <2>1. GcpRulesOf(s) = GcpStorageRules(s) /\ GcpRulesOf(q) = GcpStorageRules(q)
    BY <1>1, <1>9 DEF GcpRulesOf, GcpCategoryRules
  <2>2. ~GcpMachine(s) /\ ~GcpPart(s)
    BY <1>9 DEF GcpMachine, GcpPart
  <2> QED
    BY <1>1, <1>3, <1>4, <1>5, <1>9, <2>1, <2>2, GcpStorages DEF GcpPassedOver, GcpUnread
<1>10. CASE s.category = "network"
  <2>1. GcpRulesOf(s) = GcpNetworkRules(s) /\ GcpRulesOf(q) = GcpNetworkRules(q)
    BY <1>1, <1>10 DEF GcpRulesOf, GcpCategoryRules
  <2>2. ~GcpMachine(s) /\ ~GcpPart(s)
    BY <1>10 DEF GcpMachine, GcpPart
  <2> QED
    BY <1>1, <1>3, <1>4, <1>10, <2>1, <2>2, GcpEgress DEF GcpPassedOver, GcpUnread
<1>11. CASE s.category = "database_rdbms"
  <2>1. GcpRulesOf(s) = GcpDatabaseRules(s) /\ GcpRulesOf(q) = GcpDatabaseRules(q)
    BY <1>1, <1>11 DEF GcpRulesOf, GcpCategoryRules
  <2>2. ~GcpMachine(s) /\ (GcpPart(s) <=> IsGcpDatabase(s) /\ IsGcpDatabaseComponent(s))
    BY <1>11 DEF GcpMachine, GcpPart
  <2>3. IsGcpDatabase(s) /\ ~IsOutOfScopeDatabase(s) /\ ~IsGcpDatabaseComponent(q)
    BY <1>1, <1>3, <2>1, GcpDatabases
  <2>4. IsGcpDatabaseComponent(s) => ~s.shaped
    BY DEF IsGcpDatabaseComponent
  <2>5. ~IsGcpDatabaseComponent(s)
    BY <1>1, <2>2, <2>3, <2>4
  <2> QED
    BY <1>1, <1>3, <1>4, <1>5, <1>11, <2>1, <2>2, <2>3, <2>5, GcpDatabases DEF GcpPassedOver, GcpUnread
<1>12. CASE s.category = "database_nosql"
  <2>1. GcpRulesOf(s) = GcpNoSQLRules(s) /\ GcpRulesOf(q) = GcpNoSQLRules(q)
    BY <1>1, <1>12 DEF GcpRulesOf, GcpCategoryRules
  <2>2. ~GcpMachine(s) /\ ~GcpPart(s)
    BY <1>12 DEF GcpMachine, GcpPart
  <2> QED
    BY <1>1, <1>2, <1>3, <1>4, <1>5, <1>12, <2>1, <2>2, GcpDocuments DEF GcpPassedOver, GcpUnread
<1>13. CASE s.category = "kubernetes"
  <2>1. GcpRulesOf(s) = GcpKubernetesRules(s) /\ GcpRulesOf(q) = GcpKubernetesRules(q)
    BY <1>1, <1>13 DEF GcpRulesOf, GcpCategoryRules
  <2>2. ~GcpMachine(s) /\ ~GcpPart(s)
    BY <1>13 DEF GcpMachine, GcpPart
  <2> QED
    BY <1>1, <1>3, <1>4, <1>5, <1>13, <2>1, <2>2, GcpClusters DEF GcpPassedOver, GcpUnread
<1>14. CASE s.category = "serverless"
  <2>1. GcpRulesOf(s) = GcpServerlessRules(s) /\ GcpRulesOf(q) = GcpServerlessRules(q)
    BY <1>1, <1>14 DEF GcpRulesOf, GcpCategoryRules
  <2>2. ~GcpMachine(s) /\ ~GcpPart(s)
    BY <1>14 DEF GcpMachine, GcpPart
  <2> QED
    BY <1>1, <1>2, <1>3, <1>4, <1>5, <1>14, <2>1, <2>2, GcpFunctions DEF GcpPassedOver, GcpUnread
<1> QED
  BY <1>4, <1>7, <1>8, <1>9, <1>10, <1>11, <1>12, <1>13, <1>14 DEF GcpCategories

\* A part of a price that would be collected under names that are known is
\* passed over, unless a machine type is read from it.
LEMMA GcpPartsDrift ==
  ASSUME NEW s \in GcpShapes, NEW target, GcpCollects(GcpNamed(s), target)
  PROVE  GcpTriage(s, target) = IF GcpPassedOver(s) THEN "nothing"
                                ELSE IF GcpUnread(s) THEN "observed" ELSE "quarantined"
<1> DEFINE q == GcpNamed(s)
           rules == First(GcpRulesOf(s))
<1>1. /\ q.category = s.category /\ q.price = s.price
      /\ q.region = IF s.region = "unknown" THEN "hub" ELSE s.region
      /\ IsGcpNetwork(q) <=> IsGcpNetwork(s)
      /\ IsGcpDatabase(q) <=> IsGcpDatabase(s)
      /\ IsGcpDatabaseComponent(q) => IsGcpDatabaseComponent(s)
  BY GcpNamedIs
<1>2. /\ s.category = target /\ ~IsGcpNetwork(s) /\ s.price \in GcpPrices /\ s.region \in {"hub", "unknown"}
      /\ \/ s.category = "compute"
         \/ s.category = "database_rdbms" /\ IsGcpDatabase(s) /\ IsGcpDatabaseComponent(s)
  BY <1>1 DEF GcpCollects, GcpShapes
<1>3. First(GcpPriceRules(s.price)) = "none"
  BY <1>2, GcpPriceFirst DEF GcpPrices
<1>4. First(GcpRegionRules(s)) = IF s.region = "unknown" THEN "quarantined" ELSE "none"
  BY <1>2, GcpRegionFirst
<1>5. GcpTriage(s, target) = IF rules # "none" THEN rules ELSE "observed"
  BY <1>2, GcpTriaged, GcpFronts
<1> HIDE DEF q
<1>6. CASE s.category = "compute"
  <2>1. GcpRulesOf(s) = GcpComputeRules(s) /\ GcpMachine(s)
    BY <1>2, <1>6 DEF GcpRulesOf, GcpCategoryRules, GcpMachine
  <2> QED
    BY <1>2, <1>3, <1>4, <1>5, <2>1, GcpMachines DEF GcpPassedOver, GcpUnread
<1>7. CASE s.category = "database_rdbms"
  <2>1. GcpRulesOf(s) = GcpDatabaseRules(s) /\ ~GcpMachine(s) /\ GcpPart(s)
    BY <1>2, <1>7 DEF GcpRulesOf, GcpCategoryRules, GcpMachine, GcpPart
  <2> QED
    BY <1>2, <1>5, <1>7, <2>1, GcpDatabases DEF GcpPassedOver
<1> QED
  BY <1>2, <1>6, <1>7

LEMMA GcpDriftInvariant == GcpSpec => []GcpDriftSurfaces
<1>1. ASSUME GcpVerdictInv
      PROVE  GcpDriftSurfaces
  <2> DEFINE q == GcpNamed(gcpSku)
             verdict == GcpTriage(gcpSku, gcpTarget)
  <2> SUFFICES ASSUME gcpVerdict # "", gcpSku # q,
                      GcpTriage(q, gcpTarget) = "observed" \/ GcpCollects(q, gcpTarget)
               PROVE  gcpVerdict \in IF GcpPassedOver(gcpSku) THEN {"nothing", "ignored"}
                                     ELSE IF GcpUnread(gcpSku) THEN {"observed"} ELSE {"quarantined"}
    BY DEF GcpDriftSurfaces
  <2>1. gcpSku \in GcpShapes /\ gcpVerdict = GcpCount(gcpSku, verdict)
    BY <1>1, GcpAssumption DEF GcpVerdictInv, GcpShapes
  <2>2. verdict = IF GcpPassedOver(gcpSku) THEN "nothing"
                  ELSE IF GcpUnread(gcpSku) THEN "observed" ELSE "quarantined"
    BY <2>1, GcpPricesDrift, GcpPartsDrift
  <2>3. gcpVerdict = verdict \/ (gcpVerdict = "ignored" /\ verdict = "nothing")
    BY <2>1 DEF GcpCount
  <2> HIDE DEF verdict
  <2> QED
    BY <2>2, <2>3
<1> QED
  BY <1>1, GcpVerdictInvariant, PTL

-----------------------------------------------------------------------------
(* The documents of the other providers.                                    *)

\* What becomes of an item with a price, in the documents of each provider.
LEMMA AlibabaDecides ==
  ASSUME NEW i, i.priced
  PROVE  DocDecide("alibaba", i) =
           IF i.category \in {"storage", "network"}
           THEN IF i.value = "unknown" THEN "quarantined" ELSE IF i.regions = {} THEN "nowhere" ELSE "regions"
           ELSE IF i.category = "unknown" THEN "quarantined"
           ELSE IF i.category = "other" \/ i.kind = "unnamed" THEN "nothing"
           ELSE IF i.value = "unknown" \/ ~i.sized THEN "quarantined"
           ELSE IF i.regions = {} THEN "nowhere" ELSE "regions"
<1>1. DocRules("alibaba", i) = IF i.category \in {"storage", "network"} THEN AlibabaStorageRules(i)
                               ELSE AlibabaComputeRules(i)
  BY DEF DocRules, AlibabaNetworkRules
<1>2. First(DocRules("alibaba", i)) # "none"
  BY <1>1, AlibabaCompute, AlibabaOthers
<1>3. DocDecide("alibaba", i) = First(DocRules("alibaba", i))
  BY <1>2, DecideIsFirst DEF DocDecide
<1> QED
  BY <1>1, <1>3, AlibabaCompute, AlibabaOthers

LEMMA DigitalOceanDecides ==
  ASSUME NEW i, i.priced, i.category \in {"unknown", "", "compute", "storage", "network", "other"}
  PROVE  DocDecide("digitalocean", i) =
           IF i.category = "compute"
           THEN IF i.kind = "unnamed" THEN "nothing" ELSE IF ~i.sized THEN "quarantined"
                ELSE IF i.regions = {} THEN "nowhere" ELSE "regions"
           ELSE IF i.category \in {"unknown", ""} THEN "quarantined"
           ELSE IF i.category = "other" THEN "nothing"
           ELSE IF i.value = "unknown" THEN "quarantined" ELSE IF i.regions = {} THEN "nowhere" ELSE "regions"
<1>1. CASE i.category = "compute"
  <2>1. DocRules("digitalocean", i) = DropletRules(i)
    BY <1>1 DEF DocRules
  <2>2. First(DocRules("digitalocean", i)) # "none"
    BY <2>1, Droplets
  <2>3. DocDecide("digitalocean", i) = First(DocRules("digitalocean", i))
    BY <2>2, DecideIsFirst DEF DocDecide
  <2> QED
    BY <1>1, <2>1, <2>3, Droplets
<1>2. CASE i.category # "compute"
  <2> DEFINE rules == IF i.category \in {"storage", "network"} THEN DigitalOceanStorageRules(i) ELSE << >>
  <2>1. DocRules("digitalocean", i) = DigitalOceanProductRules(i) \o rules
    BY <1>2 DEF DocRules, DigitalOceanNetworkRules
  <2>2. rules \in Seq(Rule)
    BY NoRules, DigitalOceanOthers
  <2>3. i.category \in {"storage", "network"} =>
          First(rules) = IF i.value = "unknown" THEN "quarantined"
                         ELSE IF i.regions = {} THEN "nowhere" ELSE "regions"
    BY DigitalOceanOthers
  <2> HIDE DEF rules
  <2>4. First(DocRules("digitalocean", i)) =
          IF First(DigitalOceanProductRules(i)) = "none" THEN First(rules) ELSE First(DigitalOceanProductRules(i))
    BY <2>1, <2>2, DigitalOceanProducts, FirstJoined
  <2>5. First(DocRules("digitalocean", i)) # "none"
    BY <1>2, <2>3, <2>4, DigitalOceanProducts
  <2>6. DocDecide("digitalocean", i) = First(DocRules("digitalocean", i))
    BY <2>5, DecideIsFirst DEF DocDecide
  <2> QED
    BY <1>2, <2>3, <2>4, <2>6, DigitalOceanProducts
<1> QED
  BY <1>1, <1>2

LEMMA IbmDecides ==
  ASSUME NEW i, i.priced
  PROVE  DocDecide("ibm", i) =
           IF i.category = "unknown" THEN "quarantined" ELSE IF i.category = "other" THEN "nothing"
           ELSE IF i.value = "unknown" THEN "quarantined" ELSE "regions"
<1>1. DocRules("ibm", i) = IbmProductRules(i) \o IbmComputeRules(i)
  BY DEF DocRules, IbmStorageRules, IbmNetworkRules
<1>2. First(DocRules("ibm", i)) =
        IF First(IbmProductRules(i)) = "none" THEN First(IbmComputeRules(i)) ELSE First(IbmProductRules(i))
  BY <1>1, IbmProducts, IbmItems, FirstJoined
<1>3. First(DocRules("ibm", i)) # "none"
  BY <1>2, IbmItems
<1>4. DocDecide("ibm", i) = First(DocRules("ibm", i))
  BY <1>3, DecideIsFirst DEF DocDecide
<1> QED
  BY <1>2, <1>4, IbmProducts, IbmItems

LEMMA OracleDecides ==
  ASSUME NEW i
  PROVE  /\ DocDecide("oracle", i) =
              IF i.category \in {"unknown", "", "other"} THEN "nothing"
              ELSE IF i.category = "storage" THEN First(OracleStorageRules(i))
              ELSE IF i.category = "network" THEN First(OracleNetworkRules(i))
              ELSE First(OracleComputeRules(i))
         /\ OraclePassesOver(i) => DocDecide("oracle", i) = "nothing"
<1> DEFINE rules == IF i.category = "storage" THEN OracleStorageRules(i)
                    ELSE IF i.category = "network" THEN OracleNetworkRules(i) ELSE OracleComputeRules(i)
<1>1. DocRules("oracle", i) = OracleProductRules(i) \o rules
  BY DEF DocRules
<1>2. rules \in Seq(Rule) /\ First(rules) # "none"
  BY OracleStorages, OracleNetworks, OracleShapes
<1> HIDE DEF rules
<1>3. First(DocRules("oracle", i)) =
        IF First(OracleProductRules(i)) = "none" THEN First(rules) ELSE First(OracleProductRules(i))
  BY <1>1, <1>2, OracleProducts, FirstJoined
<1>4. First(DocRules("oracle", i)) # "none"
  BY <1>2, <1>3
<1>5. DocDecide("oracle", i) = First(DocRules("oracle", i))
  BY <1>4, DecideIsFirst DEF DocDecide
<1>6. DocDecide("oracle", i) = IF i.category \in {"unknown", "", "other"} THEN "nothing" ELSE First(rules)
  BY <1>3, <1>5, OracleProducts
<1>7. OraclePassesOver(i) => DocDecide("oracle", i) = "nothing"
  <2> SUFFICES ASSUME i.category = "compute", i.kind \notin {"ocpu", "memory"}, i.value = "unknown", i.regions # {}
               PROVE  First(rules) = "nothing"
    BY <1>6 DEF OraclePassesOver
  <2>1. First(OracleComputeRules(i)) = "nothing"
    BY OracleShapes
  <2> QED
    BY <2>1 DEF rules
<1> QED
  BY <1>6, <1>7 DEF rules

\* An item that has drifted, as DocDriftSurfaces has it.
DocDrifted(provider, i) ==
  LET named == DocDecide(provider, DocNamed(i)) IN
  \/ i.category = "unknown"
  \/ named \in {"regions", "nowhere", "part"} /\ DocUnknown(provider, i)
  \/ named = "nowhere"

\* It is quarantined, or Oracle's and passed over; another one is taken if it
\* would be under names that are known.
LEMMA DocDrifts ==
  ASSUME NEW i \in DocItems, NEW provider \in DocProviders, i.priced
  PROVE  /\ DocDrifted(provider, i) =>
              \/ DocDecide(provider, i) \in {"quarantined", "nowhere"}
              \/ provider = "oracle" /\ OraclePassesOver(i)
         /\ DocDecide(provider, DocNamed(i)) = "regions" /\ ~DocDrifted(provider, i) =>
              DocDecide(provider, i) = "regions"
<1> DEFINE q == DocNamed(i)
           named == DocDecide(provider, q)
           decided == DocDecide(provider, i)
           unknown == DocUnknown(provider, i)
           claim == /\ (i.category = "unknown" \/ (named \in {"regions", "nowhere", "part"} /\ unknown)
                          \/ named = "nowhere")
                         => \/ decided \in {"quarantined", "nowhere"}
                            \/ provider = "oracle" /\ OraclePassesOver(i)
                    /\ named = "regions" /\ i.category # "unknown" /\ ~unknown => decided = "regions"
<1>1. /\ i.category \in {"unknown", "", "compute", "storage", "network", "other"}
      /\ i.value \in {"known", "unknown"} /\ i.sized \in BOOLEAN
  BY DocAssumption
<1>2. /\ q.category = i.category /\ q.kind = i.kind /\ q.regions = i.regions /\ q.priced
      /\ q.value = "known" /\ q.sized
  BY DocAssumption DEF DocNamed
<1>3. unknown <=> \/ i.value = "unknown" /\ ~(provider = "digitalocean" /\ i.category = "compute")
                  \/ ~i.sized /\ i.category \in {"", "compute"} /\ provider \in {"alibaba", "digitalocean"}
  BY DEF DocUnknown
<1>4. SUFFICES claim
  BY DEF DocDrifted
<1> HIDE DEF q, unknown
<1>5. CASE provider = "alibaba"
  <2>1. decided = IF i.category \in {"storage", "network"}
                  THEN IF i.value = "unknown" THEN "quarantined" ELSE IF i.regions = {} THEN "nowhere" ELSE "regions"
                  ELSE IF i.category = "unknown" THEN "quarantined"
                  ELSE IF i.category = "other" \/ i.kind = "unnamed" THEN "nothing"
                  ELSE IF i.value = "unknown" \/ ~i.sized THEN "quarantined"
                  ELSE IF i.regions = {} THEN "nowhere" ELSE "regions"
    BY <1>5, AlibabaDecides
  <2>2. named = IF i.category \in {"storage", "network"}
                THEN IF i.regions = {} THEN "nowhere" ELSE "regions"
                ELSE IF i.category = "unknown" THEN "quarantined"
                ELSE IF i.category = "other" \/ i.kind = "unnamed" THEN "nothing"
                ELSE IF i.regions = {} THEN "nowhere" ELSE "regions"
    BY <1>2, <1>5, AlibabaDecides
  <2> HIDE DEF named, decided
  <2> QED
    BY <1>1, <1>3, <1>5, <2>1, <2>2
<1>6. CASE provider = "digitalocean"
  BY <1>1, <1>2, <1>3, <1>6, DigitalOceanDecides
<1>7. CASE provider = "ibm"
  BY <1>1, <1>2, <1>3, <1>7, IbmDecides
<1>8. CASE provider = "oracle"
  BY <1>1, <1>2, <1>3, <1>8, OracleDecides, OracleStorages, OracleNetworks, OracleShapes DEF OraclePassesOver
<1> QED
  BY <1>5, <1>6, <1>7, <1>8 DEF DocProviders

\* The drift of a document with the item that was read last, and that of the
\* shapes which are composed at its end.
DocItemDrifts ==
  docItem # NoDocItem /\ docItem.priced =>
    /\ DocDrifted(docProvider, docItem) =>
         ((\A r \in DocRegions \cup {"", "missing"} : <<docItem, r>> \notin docQuarantined)
            <=> docProvider = "oracle" /\ OraclePassesOver(docItem))
    /\ /\ DocDecide(docProvider, DocNamed(docItem)) = "regions"
       /\ ~DocDrifted(docProvider, docItem) /\ "nowhere" \in docItem.regions
       => <<docItem, "nowhere">> \in docQuarantined

DocShapesDrift ==
  docEnded /\ docFlex.parts = {"ocpu", "memory"} /\ "nowhere" \in docFlex.regions =>
    <<NoDocItem, "nowhere">> \in docQuarantined

\* What Oracle's normalizer passes over has never been put in quarantine.
DocDriftInv ==
  /\ docProvider \in DocProviders \cup {""}
  /\ docItem \in DocItems \cup {NoDocItem}
  /\ docProvider = "" => docItem = NoDocItem
  /\ docProvider \in {"", "oracle"} =>
       \A i \in DocItems : \A r : OraclePassesOver(i) => <<i, r>> \notin docQuarantined
  /\ DocItemDrifts /\ DocShapesDrift

LEMMA DocReadItemDrifts ==
  ASSUME DocDriftInv, DocReadItem
  PROVE  DocDriftInv'
<1>1. /\ docProvider' = docProvider /\ docProvider \in DocProviders /\ docProvider # ""
      /\ docEnded' = docEnded /\ ~docEnded
  BY DEF DocReadItem, docReading, DocDriftInv
<1>2. PICK i \in DocItems :
        LET step == DocDecide(docProvider, i)
            regions == IF step = "regions" THEN DocRegionsOf(docProvider, i) ELSE {}
        IN /\ docItem' = i
           /\ docQuarantined' = docQuarantined \cup
                ({<<i, r>> : r \in regions \cap {"nowhere"}}
                 \cup (IF step = "quarantined" THEN {<<i, "">>} ELSE {})
                 \cup (IF step = "nowhere" THEN {<<i, "missing">>} ELSE {}))
  BY DEF DocReadItem
<1>3. docItem' = i
  BY <1>2
<1>4. ASSUME NEW j \in DocItems, NEW r, docProvider = "oracle", OraclePassesOver(j)
      PROVE  <<j, r>> \notin docQuarantined'
  <2>1. DocDecide(docProvider, j) = "nothing"
    BY <1>4, OracleDecides
  <2>2. <<j, r>> \notin docQuarantined
    BY <1>4 DEF DocDriftInv
  <2> QED
    BY <1>2, <2>1, <2>2
<1>5. /\ DocDecide(docProvider, i) = "quarantined" => <<i, "">> \in docQuarantined'
      /\ DocDecide(docProvider, i) = "nowhere" => <<i, "missing">> \in docQuarantined'
      /\ DocDecide(docProvider, i) = "regions" /\ "nowhere" \in i.regions => <<i, "nowhere">> \in docQuarantined'
  BY <1>2 DEF DocRegionsOf
<1>6. ASSUME i.priced
      PROVE  /\ DocDrifted(docProvider, i) =>
                  ((\A r \in DocRegions \cup {"", "missing"} : <<i, r>> \notin docQuarantined')
                     <=> docProvider = "oracle" /\ OraclePassesOver(i))
             /\ /\ DocDecide(docProvider, DocNamed(i)) = "regions"
                /\ ~DocDrifted(docProvider, i) /\ "nowhere" \in i.regions
                => <<i, "nowhere">> \in docQuarantined'
  <2>1. /\ DocDrifted(docProvider, i) =>
             \/ DocDecide(docProvider, i) \in {"quarantined", "nowhere"}
             \/ docProvider = "oracle" /\ OraclePassesOver(i)
        /\ DocDecide(docProvider, DocNamed(i)) = "regions" /\ ~DocDrifted(docProvider, i) =>
             DocDecide(docProvider, i) = "regions"
    BY <1>1, <1>6, DocDrifts
  <2> QED
    BY <1>4, <1>5, <2>1
<1>7. DocItemDrifts'
  BY <1>1, <1>3, <1>6 DEF DocItemDrifts
<1>8. DocShapesDrift'
  BY <1>1 DEF DocShapesDrift
<1> QED
  BY <1>1, <1>3, <1>4, <1>7, <1>8 DEF DocDriftInv

LEMMA DocEndsDrifts ==
  ASSUME DocDriftInv, DocEnds
  PROVE  DocDriftInv'
<1> DEFINE regions == IF docFlex.parts = {"ocpu", "memory"} THEN docFlex.regions ELSE {}
<1>1. /\ docQuarantined' = docQuarantined \cup {<<NoDocItem, r>> : r \in regions \cap {"nowhere"}}
      /\ UNCHANGED <<docProvider, docItem, docFlex>>
  BY DEF DocEnds
<1>2. \A i \in DocItems : i # NoDocItem
  BY DocAssumption DEF NoDocItem
<1>3. \A i, r : i # NoDocItem => (<<i, r>> \in docQuarantined' <=> <<i, r>> \in docQuarantined)
  BY <1>1
<1>4. DocShapesDrift'
  BY <1>1 DEF DocShapesDrift
<1>5. DocItemDrifts'
  BY <1>1, <1>3 DEF DocItemDrifts, DocDriftInv
<1> QED
  BY <1>1, <1>2, <1>3, <1>4, <1>5 DEF DocDriftInv

LEMMA DocDriftInvariant == DocSpec => []DocDriftInv
<1>1. DocInit => DocDriftInv
  BY DEF DocInit, DocDriftInv, DocItemDrifts, DocShapesDrift
<1>2. ASSUME DocDriftInv, [DocNext]_docVars
      PROVE  DocDriftInv'
  <2>1. CASE DocStarts
    <3>1. /\ docProvider = "" /\ docProvider' \in DocProviders
          /\ UNCHANGED <<docItem, docQuarantined, docFlex, docEnded>>
      BY <2>1 DEF DocStarts
    <3>2. docProvider' # ""
      BY <3>1 DEF DocProviders
    <3> QED
      BY <1>2, <3>1, <3>2 DEF DocDriftInv, DocItemDrifts, DocShapesDrift
  <2>2. CASE UNCHANGED docVars
    BY <1>2, <2>2 DEF docVars, DocDriftInv, DocItemDrifts, DocShapesDrift
  <2> QED
    BY <1>2, <2>1, <2>2, DocReadItemDrifts, DocEndsDrifts DEF DocNext
<1> QED
  BY <1>1, <1>2, PTL DEF DocSpec

\* Only the cores and the memory of a flexible shape are parts.
LEMMA DocParts ==
  ASSUME NEW i \in DocItems, NEW provider \in DocProviders, DocDecide(provider, i) = "part"
  PROVE  i.kind \in {"ocpu", "memory"}
<1>0. i.category \in {"unknown", "", "compute", "storage", "network", "other"}
  BY DocAssumption
<1>1. CASE provider = "alibaba"
  <2>1. DocRules(provider, i) = IF i.category \in {"storage", "network"} THEN AlibabaStorageRules(i)
                                ELSE AlibabaComputeRules(i)
    BY <1>1 DEF DocRules, AlibabaNetworkRules
  <2>2. First(DocRules(provider, i)) \notin {"none", "part"}
    BY <2>1, AlibabaCompute, AlibabaOthers
  <2> QED
    BY <2>2, DecideIsFirst DEF DocDecide
<1>2. CASE provider = "digitalocean"
  <2>1. CASE i.category = "compute"
    <3>1. DocRules(provider, i) = DropletRules(i)
      BY <1>2, <2>1 DEF DocRules
    <3>2. First(DocRules(provider, i)) \notin {"none", "part"}
      BY <3>1, Droplets
    <3> QED
      BY <3>2, DecideIsFirst DEF DocDecide
  <2>2. CASE i.category # "compute"
    <3> DEFINE rules == IF i.category \in {"storage", "network"} THEN DigitalOceanStorageRules(i) ELSE << >>
    <3>1. DocRules(provider, i) = DigitalOceanProductRules(i) \o rules
      BY <1>2, <2>2 DEF DocRules, DigitalOceanNetworkRules
    <3>2. /\ DigitalOceanProductRules(i) \in Seq(Rule)
          /\ First(DigitalOceanProductRules(i)) # "part"
          /\ First(DigitalOceanProductRules(i)) = "none" => i.category \in {"storage", "network"}
      BY <1>0, <2>2, DigitalOceanProducts
    <3>3. /\ rules \in Seq(Rule) /\ First(rules) # "part"
          /\ i.category \in {"storage", "network"} => First(rules) # "none"
      BY NoRules, DigitalOceanOthers
    <3> HIDE DEF rules
    <3>4. First(DocRules(provider, i)) \notin {"none", "part"}
      BY <3>1, <3>2, <3>3, FirstJoined
    <3> QED
      BY <3>4, DecideIsFirst DEF DocDecide
  <2> QED
    BY <2>1, <2>2
<1>3. CASE provider = "ibm"
  <2>1. DocRules(provider, i) = IbmProductRules(i) \o IbmComputeRules(i)
    BY <1>3 DEF DocRules, IbmStorageRules, IbmNetworkRules
  <2>2. First(IbmProductRules(i)) # "part" /\ First(IbmComputeRules(i)) \notin {"none", "part"}
    BY IbmProducts, IbmItems
  <2>3. IbmProductRules(i) \in Seq(Rule) /\ IbmComputeRules(i) \in Seq(Rule)
    BY IbmProducts, IbmItems
  <2>4. First(DocRules(provider, i)) \notin {"none", "part"}
    BY <2>1, <2>2, <2>3, FirstJoined
  <2> QED
    BY <2>4, DecideIsFirst DEF DocDecide
<1>4. CASE provider = "oracle"
  <2> DEFINE rules == IF i.category = "storage" THEN OracleStorageRules(i)
                      ELSE IF i.category = "network" THEN OracleNetworkRules(i) ELSE OracleComputeRules(i)
  <2>1. DocRules(provider, i) = OracleProductRules(i) \o rules
    BY <1>4 DEF DocRules
  <2>2. /\ rules \in Seq(Rule) /\ First(rules) # "none"
        /\ First(rules) = "part" => i.kind \in {"ocpu", "memory"}
    BY OracleStorages, OracleNetworks, OracleShapes
  <2>3. OracleProductRules(i) \in Seq(Rule) /\ First(OracleProductRules(i)) # "part"
    BY OracleProducts
  <2> HIDE DEF rules
  <2>4. /\ First(DocRules(provider, i)) # "none"
        /\ First(DocRules(provider, i)) = "part" => i.kind \in {"ocpu", "memory"}
    BY <2>1, <2>2, <2>3, FirstJoined
  <2> QED
    BY <2>4, DecideIsFirst DEF DocDecide
<1> QED
  BY <1>1, <1>2, <1>3, <1>4 DEF DocProviders

\* A pair has no more prices than items were read, and a part was an item.
DocTypeInv ==
  /\ DocTypeOK
  /\ \A entry \in DocSkus \X DocRegions : docPrices[entry] <= docLength
  /\ docFlex.parts # {} => docLength > 0

\* An item gives each pair at most one more price, in regions of the items.
LEMMA DocItemKeeps ==
  ASSUME DocTypeInv, DocReadItem
  PROVE  DocTypeInv'
<1>0. DocLength \in Nat
  BY DocAssumption
<1>1. PICK i \in DocItems :
        LET step == DocDecide(docProvider, i)
            regions == IF step = "regions" THEN DocRegionsOf(docProvider, i) ELSE {}
            dedups == DocDedups(docProvider, i)
            taken == {<<i.sku, r>> : r \in regions \ {"nowhere"}} \ (IF dedups THEN docSeen ELSE {})
        IN
        /\ docItem' = i
        /\ docPrices' = [entry \in DOMAIN docPrices |-> docPrices[entry] + (IF entry \in taken THEN 1 ELSE 0)]
        /\ docSeen' = IF dedups THEN docSeen \cup taken ELSE docSeen
        /\ docQuarantined' = docQuarantined \cup
             ({<<i, r>> : r \in regions \cap {"nowhere"}}
              \cup (IF step = "quarantined" THEN {<<i, "">>} ELSE {})
              \cup (IF step = "nowhere" THEN {<<i, "missing">>} ELSE {}))
        /\ docFlex' = IF step = "part" THEN [parts |-> docFlex.parts \cup {i.kind}, regions |-> i.regions]
                      ELSE docFlex
  BY DEF DocReadItem
<1> DEFINE step == DocDecide(docProvider, i)
           regions == IF step = "regions" THEN DocRegionsOf(docProvider, i) ELSE {}
           taken == {<<i.sku, r>> : r \in regions \ {"nowhere"}} \ (IF DocDedups(docProvider, i) THEN docSeen ELSE {})
<1>2. docProvider \in DocProviders /\ docLength < DocLength /\ docLength' = docLength + 1
      /\ docProvider' = docProvider /\ docEnded' = docEnded
  BY DEF DocReadItem, docReading, DocTypeInv, DocTypeOK
<1>3. i.sku \in DocSkus /\ i.regions \subseteq DocRegions
  BY DEF DocSkus, DocRegions
<1>4. regions \subseteq DocRegions
  BY <1>3 DEF DocRegionsOf, IbmRegions
<1>5. taken \subseteq DocSkus \X DocRegions
  BY <1>3, <1>4
<1>6. docSeen' \subseteq DocSkus \X DocRegions
  BY <1>1, <1>5 DEF DocTypeInv, DocTypeOK
<1>7. docQuarantined' \subseteq (DocItems \cup {NoDocItem}) \X (DocRegions \cup {"", "missing"})
  <2>1. ASSUME NEW q \in docQuarantined'
        PROVE  q \in (DocItems \cup {NoDocItem}) \X (DocRegions \cup {"", "missing"})
    <3>1. q \in docQuarantined \/ (\E r \in regions : q = <<i, r>>) \/ q = <<i, "">> \/ q = <<i, "missing">>
      BY <1>1, <2>1
    <3> HIDE DEF regions, step
    <3>2. docQuarantined \subseteq (DocItems \cup {NoDocItem}) \X (DocRegions \cup {"", "missing"})
      BY DEF DocTypeInv, DocTypeOK
    <3>3. \A r \in regions \cup {"", "missing"} : <<i, r>> \in (DocItems \cup {NoDocItem}) \X (DocRegions \cup {"", "missing"})
      BY <1>4
    <3> QED
      BY <3>1, <3>2, <3>3
  <2> QED
    BY <2>1
<1>8. docFlex' \in [parts : SUBSET {"ocpu", "memory"}, regions : SUBSET DocRegions]
  <2>1. docFlex \in [parts : SUBSET {"ocpu", "memory"}, regions : SUBSET DocRegions]
    BY DEF DocTypeInv, DocTypeOK
  <2>2. CASE step = "part"
    <3>1. i.kind \in {"ocpu", "memory"}
      BY <1>2, <2>2, DocParts
    <3>2. docFlex' = [parts |-> docFlex.parts \cup {i.kind}, regions |-> i.regions]
      BY <1>1, <2>2
    <3> QED
      BY <1>3, <2>1, <3>1, <3>2
  <2>3. CASE step # "part"
    BY <1>1, <2>1, <2>3
  <2> QED
    BY <2>2, <2>3
<1>9. docPrices' = [entry \in DOMAIN docPrices |-> docPrices[entry] + (IF entry \in taken THEN 1 ELSE 0)]
  BY <1>1
<1>10. docItem' \in DocItems
  BY <1>1
<1> HIDE DEF taken, regions, step
<1>11. /\ docLength \in 0..DocLength
       /\ docPrices \in [DocSkus \X DocRegions -> 0..DocLength]
       /\ \A entry \in DocSkus \X DocRegions : docPrices[entry] <= docLength
  BY DEF DocTypeInv, DocTypeOK
<1>12. docLength' \in 0..DocLength /\ docLength' > 0
  BY <1>0, <1>2, <1>11
<1>13. ASSUME NEW entry \in DocSkus \X DocRegions
       PROVE  docPrices'[entry] \in 0..DocLength /\ docPrices'[entry] <= docLength'
  <2>1. docPrices'[entry] = docPrices[entry] + (IF entry \in taken THEN 1 ELSE 0)
    BY <1>9, <1>11
  <2>2. docPrices[entry] \in Nat /\ docPrices[entry] <= docLength /\ docLength \in Nat
    BY <1>0, <1>11
  <2> QED
    BY <1>0, <1>2, <2>1, <2>2
<1>14. DOMAIN docPrices' = DocSkus \X DocRegions
  BY <1>9, <1>11
<1>15. docPrices' \in [DocSkus \X DocRegions -> 0..DocLength]
  BY <1>9, <1>13, <1>14
<1> QED
  BY <1>2, <1>6, <1>7, <1>8, <1>10, <1>12, <1>13, <1>15 DEF DocTypeInv, DocTypeOK

\* The types of a document: its pairs, prices and quarantine are of its items.
THEOREM DocTypesCorrect == DocSpec => []DocTypeOK
<1>0. DocLength \in Nat
  BY DocAssumption
<1>1. ASSUME DocInit
      PROVE  DocTypeInv
  <2>1. 0 \in 0..DocLength
    BY <1>0
  <2>2. docPrices \in [DocSkus \X DocRegions -> 0..DocLength]
        /\ \A entry \in DocSkus \X DocRegions : docPrices[entry] <= docLength
    <3>1. docPrices = [entry \in DocSkus \X DocRegions |-> 0] /\ docLength = 0
      BY <1>1 DEF DocInit
    <3>2. DOMAIN docPrices = DocSkus \X DocRegions /\ \A entry \in DocSkus \X DocRegions : docPrices[entry] = 0
      BY <3>1
    <3> QED
      BY <2>1, <3>1, <3>2
  <2>3. docFlex \in [parts : SUBSET {"ocpu", "memory"}, regions : SUBSET DocRegions] /\ docFlex.parts = {}
    BY <1>1 DEF DocInit
  <2> QED
    BY <1>1, <2>1, <2>2, <2>3 DEF DocInit, DocTypeInv, DocTypeOK
<1>2. ASSUME DocTypeInv, [DocNext]_docVars
      PROVE  DocTypeInv'
  <2>1. CASE DocStarts
    BY <1>2, <2>1 DEF DocStarts, DocTypeInv, DocTypeOK
  <2>2. CASE DocReadItem
    BY <1>2, <2>2, DocItemKeeps
  <2>3. CASE DocEnds
    <3> DEFINE regions == IF docFlex.parts = {"ocpu", "memory"} THEN docFlex.regions ELSE {}
    <3>1. /\ docEnded' = TRUE /\ UNCHANGED <<docProvider, docItem, docLength, docSeen, docFlex>>
          /\ docPrices' = [entry \in DOMAIN docPrices |->
                     IF entry \in {Flexible} \X (regions \ {"nowhere"}) THEN 1 ELSE docPrices[entry]]
          /\ docQuarantined' = docQuarantined \cup {<<NoDocItem, r>> : r \in regions \cap {"nowhere"}}
      BY <2>3 DEF DocEnds
    <3>2. /\ docLength \in 0..DocLength
          /\ docPrices \in [DocSkus \X DocRegions -> 0..DocLength]
          /\ \A entry \in DocSkus \X DocRegions : docPrices[entry] <= docLength
          /\ docFlex.parts # {} => docLength > 0
      BY <1>2 DEF DocTypeInv, DocTypeOK
    <3>3. ASSUME NEW entry \in DocSkus \X DocRegions
          PROVE  docPrices'[entry] \in 0..DocLength /\ docPrices'[entry] <= docLength
      <4>1. entry \in {Flexible} \X (regions \ {"nowhere"}) => docFlex.parts # {}
        OBVIOUS
      <4> HIDE DEF regions
      <4>2. docPrices'[entry] = docPrices[entry] \/ (docFlex.parts # {} /\ docPrices'[entry] = 1)
        BY <3>1, <3>2, <4>1
      <4> QED
        BY <1>0, <3>2, <4>2
    <3>4. docPrices' \in [DocSkus \X DocRegions -> 0..DocLength]
      BY <3>1, <3>2, <3>3
    <3>5. docQuarantined' \subseteq (DocItems \cup {NoDocItem}) \X (DocRegions \cup {"", "missing"})
      <4>1. regions \subseteq DocRegions
        BY <1>2 DEF DocTypeInv, DocTypeOK
      <4>2. docQuarantined \subseteq (DocItems \cup {NoDocItem}) \X (DocRegions \cup {"", "missing"})
        BY <1>2 DEF DocTypeInv, DocTypeOK
      <4>3. docQuarantined' = docQuarantined \cup {<<NoDocItem, r>> : r \in regions \cap {"nowhere"}}
        BY <3>1
      <4>4. {<<NoDocItem, r>> : r \in regions \cap {"nowhere"}}
              \subseteq (DocItems \cup {NoDocItem}) \X (DocRegions \cup {"", "missing"})
        <5> HIDE DEF regions
        <5>1. NoDocItem \in DocItems \cup {NoDocItem}
          OBVIOUS
        <5>2. \A r \in regions \cap {"nowhere"} : r \in DocRegions \cup {"", "missing"}
          BY <4>1
        <5>3. \A r \in regions \cap {"nowhere"} :
                <<NoDocItem, r>> \in (DocItems \cup {NoDocItem}) \X (DocRegions \cup {"", "missing"})
          BY <5>1, <5>2
        <5> QED
          BY <5>3
      <4> HIDE DEF regions
      <4>5. (docQuarantined \cup {<<NoDocItem, r>> : r \in regions \cap {"nowhere"}})
              \subseteq (DocItems \cup {NoDocItem}) \X (DocRegions \cup {"", "missing"})
        BY <4>2, <4>4
      <4>6. (DocItems \cup {NoDocItem})' = DocItems \cup {NoDocItem} /\ DocRegions' = DocRegions
        BY DEF DocRegions, NoDocItem
      <4> QED
        BY <4>3, <4>5, <4>6
    <3> HIDE DEF regions
    <3> QED
      BY <1>2, <3>1, <3>3, <3>4, <3>5 DEF DocTypeInv, DocTypeOK
  <2>4. CASE UNCHANGED docVars
    BY <1>2, <2>4 DEF docVars, DocTypeInv, DocTypeOK
  <2> QED
    BY <1>2, <2>1, <2>2, <2>3, <2>4 DEF DocNext
<1>3. DocTypeInv => DocTypeOK
  BY DEF DocTypeInv
<1> QED
  BY <1>1, <1>2, <1>3, PTL DEF DocSpec

\* An item that a normalizer can read but not classify is quarantined or fails
\* the fetch, in every price list of AWS, page of Azure or GCP and document of
\* the others, and in whatever order their items come (docs/adr/0037; the
\* normalize.go of aws, azure and gcp, and the compute.go, storage.go and
\* network.go of the others), except what the code passes over against that
\* decision (GcpPassedOver, OraclePassesOver): of these the theorem says that no
\* trace is left.  A name that the code does not look up (AwsUnread, AzureUnread,
\* GcpUnread) is no drift to it, and the theorem says nothing of it.
THEOREM NoSilentDrift == AwsSpec /\ AzureSpec /\ GcpSpec /\ DocSpec => []DriftSurfaces
<1>1. DocDriftInv => DocDriftSurfaces
  <2> SUFFICES ASSUME DocDriftInv
               PROVE  DocDriftSurfaces
    OBVIOUS
  <2> DEFINE reasons == {r \in DocRegions \cup {"", "missing"} : <<docItem, r>> \in docQuarantined}
  <2>1. reasons = {} <=> \A r \in DocRegions \cup {"", "missing"} : <<docItem, r>> \notin docQuarantined
    OBVIOUS
  <2>2. \A i \in DocItems : "nowhere" \in i.regions => "nowhere" \in DocRegions
    BY DEF DocRegions
  <2>3. /\ docItem # NoDocItem /\ docItem.priced =>
             /\ DocDrifted(docProvider, docItem) => (reasons = {} <=> docProvider = "oracle" /\ OraclePassesOver(docItem))
             /\ /\ DocDecide(docProvider, DocNamed(docItem)) = "regions"
                /\ ~DocDrifted(docProvider, docItem) /\ "nowhere" \in docItem.regions
                => "nowhere" \in reasons
    BY <2>1, <2>2 DEF DocDriftInv, DocItemDrifts
  <2> HIDE DEF reasons
  <2>4. docEnded /\ docFlex.parts = {"ocpu", "memory"} /\ "nowhere" \in docFlex.regions =>
          <<NoDocItem, "nowhere">> \in docQuarantined
    BY DEF DocDriftInv, DocShapesDrift
  <2> QED
    BY <2>3, <2>4 DEF DocDriftSurfaces, DocDrifted, reasons
<1>2. AwsDriftSurfaces /\ AzureDriftSurfaces /\ GcpDriftSurfaces /\ DocDriftSurfaces => DriftSurfaces
  BY DEF DriftSurfaces
<1> QED
  BY <1>1, <1>2, AwsDriftInvariant, AzureDriftInvariant, GcpDriftInvariant, DocDriftInvariant, PTL


-----------------------------------------------------------------------------
(* All components together.                                                 *)

\* Every step of the services is a step of the component that runs, and leaves
\* the state of the others alone.
LEMMA EachStepIsOneComponents ==
  ASSUME [ServicesNext]_servicesVars
  PROVE  /\ [ReadNext]_readVars /\ [FxNext]_fxVars /\ [MatchNext]_matchVars
         /\ [CalculationNext]_calcVars /\ [RequestsNext]_requestVars
         /\ [RateNext]_rateVars /\ [VerificationNext]_accountVars /\ [SessionNext]_sessionVars
         /\ [FetchNext]_fetchVars /\ [AwsNext]_awsVars /\ [AzureNext]_azureVars
         /\ [GcpNext]_gcpVars /\ [DocNext]_docVars
<1>1. CASE UNCHANGED servicesVars
  BY <1>1 DEF servicesVars, jobVars, priceVars, peopleVars
<1>2. CASE /\ \/ ReadNext /\ UNCHANGED <<fxVars, matchVars, calcVars, requestVars>>
              \/ FxNext /\ UNCHANGED <<readVars, matchVars, calcVars, requestVars>>
              \/ MatchNext /\ UNCHANGED <<readVars, fxVars, calcVars, requestVars>>
              \/ CalculationNext /\ UNCHANGED <<readVars, fxVars, matchVars, requestVars>>
              \/ RequestsNext /\ UNCHANGED <<readVars, fxVars, matchVars, calcVars>>
           /\ UNCHANGED <<jobVars, peopleVars>>
  BY <1>2 DEF jobVars, peopleVars
<1>3. CASE /\ \/ RateNext /\ UNCHANGED <<accountVars, sessionVars>>
              \/ VerificationNext /\ UNCHANGED <<rateVars, sessionVars>>
              \/ SessionNext /\ UNCHANGED <<rateVars, accountVars>>
           /\ UNCHANGED <<jobVars, priceVars>>
  BY <1>3 DEF jobVars, priceVars
<1>4. CASE /\ \/ FetchNext /\ UNCHANGED <<awsVars, azureVars, gcpVars, docVars>>
              \/ AwsNext /\ UNCHANGED <<fetchVars, azureVars, gcpVars, docVars>>
              \/ AzureNext /\ UNCHANGED <<fetchVars, awsVars, gcpVars, docVars>>
              \/ GcpNext /\ UNCHANGED <<fetchVars, awsVars, azureVars, docVars>>
              \/ DocNext /\ UNCHANGED <<fetchVars, awsVars, azureVars, gcpVars>>
           /\ UNCHANGED <<priceVars, peopleVars>>
  BY <1>4 DEF priceVars, peopleVars
<1> QED
  BY <1>1, <1>2, <1>3, <1>4 DEF ServicesNext

\* A behaviour of the services is one of each of them, with the fairness of each.
LEMMA ServicesRunThem ==
  ServicesSpec => /\ ReadSpec /\ FxSpec /\ MatchSpec /\ CalculationSpec /\ RequestsSpec
                  /\ RateSpec /\ VerificationSpec /\ SessionSpec
                  /\ FetchSpec /\ AwsSpec /\ AzureSpec /\ GcpSpec /\ DocSpec
<1>1. ServicesInit => /\ ReadInit /\ FxInit /\ MatchInit /\ CalculationInit /\ RequestsInit
                      /\ RateInit /\ VerificationInit /\ SessionInit
                      /\ FetchInit /\ AwsInit /\ AzureInit /\ GcpInit /\ DocInit
  BY DEF ServicesInit
<1>2. [ServicesNext]_servicesVars =>
        /\ [ReadNext]_readVars /\ [FxNext]_fxVars /\ [MatchNext]_matchVars
        /\ [CalculationNext]_calcVars /\ [RequestsNext]_requestVars
        /\ [RateNext]_rateVars /\ [VerificationNext]_accountVars /\ [SessionNext]_sessionVars
        /\ [FetchNext]_fetchVars /\ [AwsNext]_awsVars /\ [AzureNext]_azureVars
        /\ [GcpNext]_gcpVars /\ [DocNext]_docVars
  BY EachStepIsOneComponents
<1> QED
  BY <1>1, <1>2, PTL DEF ServicesSpec, ReadSpec, FxSpec, MatchSpec, CalculationSpec, RequestsSpec,
                         RateSpec, VerificationSpec, SessionSpec,
                         FetchSpec, AwsSpec, AzureSpec, GcpSpec, DocSpec

\* Which component runs is fixed at the start.
LEMMA OneComponentRuns == ServicesSpec => [](component \in Parts)
<1>1. ServicesInit => component \in Parts
  BY DEF ServicesInit
<1>2. component \in Parts /\ [ServicesNext]_servicesVars => (component \in Parts)'
  BY DEF ServicesNext, servicesVars
<1> QED
  BY <1>1, <1>2, PTL DEF ServicesSpec

\* Type correctness of all components around the ingestion job, for every number
\* of callers, tokens, streams and pages, and for every document, list and request:
\* whichever runs, its variables keep their types.
THEOREM ServicesTypesCorrect == ServicesSpec => []ServicesTypeOK
<1>1. /\ ReadTypeOK /\ FxTypeOK /\ MatchTypeOK /\ CalculationTypeOK /\ RequestsTypeOK
      /\ RateTypeOK /\ VerificationTypeOK /\ SessionTypeOK
      /\ FetchTypeOK /\ AwsTypeOK /\ AzureTypeOK /\ GcpTypeOK /\ DocTypeOK
      /\ component \in Parts
      => ServicesTypeOK
  BY DEF ServicesTypeOK, Parts
<1> QED
  BY <1>1, OneComponentRuns, ServicesRunThem,
     ReadTypesCorrect, FxTypesCorrect, MatchTypesCorrect, CalculationTypesCorrect, RequestsTypesCorrect,
     RateTypesCorrect, VerificationTypesCorrect, SessionTypesCorrect,
     FetchTypesCorrect, AwsTypesCorrect, AzureTypesCorrect, GcpTypesCorrect, DocTypesCorrect, PTL

\* What the components promise they promise together: the state of none is
\* another's, so no interleaving of their processes breaks a promise.
\* The promises are the properties of the services run, each with the exceptions
\* that its own comment names.
THEOREM ServicesKeepTheirPromises ==
  ServicesSpec =>
    /\ [](OnlyTheCancelledGiveUp /\ ListNotOlderThanItsQuery)
    /\ [](LimitHolds /\ RejectionsEarned /\ CountersExpire)
    /\ [](SessionsNeedMailedToken /\ UsedLinkRefused /\ ActiveTokensBounded)
    /\ [](ConversionsHonest /\ HonestTotals /\ ExactMeansAsked /\ OneContract)
    /\ [](RefreshTokensServeOnce /\ WaitersAreSettled)
    /\ [](RawBeforePrices /\ PagesLostOnlyBySkipping)
    /\ [](DriftSurfaces /\ ComposedAcrossPages /\ PricedOnceInARegion)
    /\ GrowthNeverCheaper
<1> QED
  BY ServicesRunThem, OthersAreServed, ListsAreNotOlder, LimitsHold, EveryRejectionEarned, CountersComeToAnEnd,
     LoginNeedsTheMail, LinksServeOnce, ActiveTokensStayBounded, ConversionsAreHonest, TotalsAreHonest,
     ExactIsAsked, TransportsAgree, TokensServeOnce, NobodyWaitsInVain, RawComesFirst, PagesAreAccountedFor,
     NoSilentDrift, ComposedWhateverThePages, OneScrapeOnePrice, MoreNeverCostsLess, PTL
=============================================================================
