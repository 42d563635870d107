------------------------------ MODULE MemPool -------------------------------
(***************************************************************************)
(* The memory pools of Argobots: blocks of one size (a stack, a            *)
(* descriptor) that begin with a header.  Every ES has a local pool of at  *)
(* most two buckets, which only its native thread touches; external        *)
(* threads share one more, under a spinlock.  A local pool that runs out   *)
(* takes a bucket of PER headers from the global pool, one that is full    *)
(* returns one.  The global pool is a lock-free LIFO of buckets; a thread  *)
(* that finds it empty carves a bucket out of the pages of another LIFO,   *)
(* or of fresh ones.  The headers of a local pool that is destroyed in the *)
(* middle of a bucket are gathered in partial_bucket.                      *)
(*                                                                         *)
(* A header holds p_next, the link inside a bucket, and bucket_info, a     *)
(* union: the number of headers of the bucket, or, in the LIFO, the next   *)
(* bucket.  link["bucket"] is bucket_info, whatever it holds.  A block in  *)
(* use is overwritten by its user.                                         *)
(*                                                                         *)
(* Code that touches only memory of the thread that executes it, or of the *)
(* lock it holds, is one step with the call it surrounds.                  *)
(***************************************************************************)
EXTENDS Integers, FiniteSets, SequencesExt

CONSTANTS
    MEM_ES,     \* execution streams; each stands for its native thread too
    PRIMARY_ES, \* the ES that calls ABT_init and ABT_finalize
    MEM_EXT,    \* external threads
    ext,        \* the local pool of the external threads
    PER,        \* num_headers_per_bucket
    PPG,        \* headers in a page
    MAXPAGE,    \* pages the system has: the one after it cannot be allocated
    BUCKETS,    \* buckets in the global pool at the beginning
    OPS         \* how many blocks each thread allocates or frees

(* Assumed of the constants by the modules that give them values.          *)
MemPoolConstants ==
    /\ PRIMARY_ES \in MEM_ES
    /\ ext \notin MEM_ES
    /\ MEM_ES \cap MEM_EXT = {}
    /\ PER \in Nat \ {0} /\ PPG \in Nat \ {0} /\ MAXPAGE \in Nat
    /\ BUCKETS \in Nat
    /\ PPG * MAXPAGE >= (3 + BUCKETS) * PER
    /\ OPS \in [MEM_ES \cup MEM_EXT -> Nat]

Actor == MEM_ES \cup MEM_EXT
LocalPool == MEM_ES \cup {ext}
Lifo == {"bucket", "page"}
Header == 1..(MAXPAGE * PPG)
Page == 1..MAXPAGE
None == 0
UserData == -100    \* what the user of a block writes over its header

VARIABLES
    p_top, tag,       \* the tagged pointer of each ABTI_sync_lifo
    link,             \* p_next of the elements of each LIFO
    header_next,      \* p_next of the headers
    mem_extra,        \* headers that each page has left
    pages,            \* pages that were allocated
    p_mem_page_empty, \* pages with no memory left
    partial_bucket, partial_lock, \* partial_bucket_lock
    ext_lock,         \* mem_pool_desc_lock
    buckets,          \* buckets[0..bucket_index] of each local pool
    status,           \* life cycle of each local pool
    blocks_used,      \* blocks that are in use
    pages_freed,      \* pages that were given back to the system
    mem_pc, reg,      \* point and local variables of each thread
    blocks_left       \* operations each thread has left

globalPoolVars == <<p_top, tag, link, header_next, mem_extra, pages,
                    p_mem_page_empty, partial_bucket, partial_lock, pages_freed>>
localPoolVars == <<buckets, status, ext_lock, blocks_used, blocks_left>>
memPoolVars == <<globalPoolVars, localPoolVars, mem_pc, reg>>

(* The local variables of a thread that executes no operation.             *)
NoReg == [pool |-> None, op |-> "none", lifo |-> "bucket", top |-> None,
          tag |-> 0, next |-> None, elem |-> None, then |-> "idle",
          page |-> None, head |-> None, num |-> 0]

(* ABT_init has given a bucket to the external threads and one to the      *)
(* primary ES; external threads have freed another bucket of blocks since; *)
(* ESs have come and gone and left BUCKETS buckets.                        *)
(* Bucket k was carved out of the headers (k - 1) * PER + 1 to k * PER.    *)
MemPoolInit ==
    LET used == (3 + BUCKETS) * PER
        last == (used + PPG - 1) \div PPG     \* page that was carved last
        left == last * PPG - used             \* what is left of it
    IN
    /\ p_top = [l \in Lifo |-> CASE l = "bucket" -> IF BUCKETS > 0 THEN used ELSE None
                                 [] l = "page"   -> IF left > 0 THEN last ELSE None]
    /\ tag = [l \in Lifo |-> 0]
    /\ link = [l \in Lifo |->
                 IF l = "page" THEN [p \in Page |-> None]
                 ELSE [h \in Header |->
                         IF h > used \/ h % PER # 0 THEN None
                         ELSE CASE h <= 3 * PER -> PER
                                [] h = 4 * PER  -> None
                                [] OTHER        -> h - PER]]
    /\ header_next = [h \in Header |-> IF h > used \/ h % PER = 1 % PER THEN None ELSE h - 1]
    /\ mem_extra = [p \in Page |-> CASE p < last -> 0 [] p = last -> left
                                      [] OTHER    -> PPG]
    /\ pages = 1..last
    /\ p_mem_page_empty = IF left > 0 THEN 1..(last - 1) ELSE 1..last
    /\ partial_bucket = None /\ partial_lock = FALSE
    /\ ext_lock = FALSE
    /\ buckets = [l \in LocalPool |-> CASE l = ext     -> <<PER, 2 * PER>>
                                        [] l = PRIMARY_ES -> <<3 * PER>>
                                        [] OTHER       -> <<>>]
    /\ status = [l \in LocalPool |-> IF l \in {ext, PRIMARY_ES} THEN "live" ELSE "none"]
    /\ blocks_used = {} /\ pages_freed = {}
    /\ mem_pc = [a \in Actor |-> "idle"]
    /\ reg = [a \in Actor |-> NoReg]
    /\ blocks_left = OPS

-----------------------------------------------------------------------------

IsAt(a, l) == mem_pc[a] = l

(* a goes to point l, with the local variables r.                          *)
Go(a, l, r) == mem_pc' = [mem_pc EXCEPT ![a] = l] /\ reg' = [reg EXCEPT ![a] = r]

(* a executes an operation on the local pool l.                            *)
Uses(a, l) == mem_pc[a] # "idle" /\ reg[a].pool = l

(* The thread a runs: an ES from the moment its pool is ready until        *)
(* somebody begins to free it.                                             *)
Working(a) == IF a \in MEM_EXT THEN status[ext] = "live"
              ELSE status[a] = "live" /\ \A b \in Actor \ {a} : ~Uses(b, a)

Current(l) == Last(buckets[l])

(* bucket_info of a header.                                                *)
Info(h) == link["bucket"][h]

-----------------------------------------------------------------------------
(* ABTI_sync_lifo_pop(reg[a].lifo).  The top is read, its tag after it.    *)

PopTo(a, r, lifo) == Go(a, "pop", [r EXCEPT !.lifo = lifo])

(* An empty LIFO: from buckets to pages, from pages to a fresh page.       *)
LifoEmpty(a) ==
    /\ IsAt(a, "pop")
    /\ p_top[reg[a].lifo] = None
    /\ IF reg[a].lifo = "bucket" THEN PopTo(a, reg[a], "page")
                                 ELSE Go(a, "page_alloc", reg[a])
    /\ UNCHANGED <<globalPoolVars, localPoolVars>>

PopTop(a) ==
    /\ IsAt(a, "pop")
    /\ p_top[reg[a].lifo] # None
    /\ Go(a, "pop_tag", [reg[a] EXCEPT !.top = p_top[reg[a].lifo]])
    /\ UNCHANGED <<globalPoolVars, localPoolVars>>

PopTag(a) ==
    /\ IsAt(a, "pop_tag")
    /\ Go(a, "pop_next", [reg[a] EXCEPT !.tag = tag[reg[a].lifo]])
    /\ UNCHANGED <<globalPoolVars, localPoolVars>>

(* The element may have a new owner already, who writes to it.             *)
PopNext(a) ==
    /\ IsAt(a, "pop_next")
    /\ Go(a, "pop_cas", [reg[a] EXCEPT !.next = link[reg[a].lifo][reg[a].top]])
    /\ UNCHANGED <<globalPoolVars, localPoolVars>>

(* What a does with what it popped: a bucket is complete, a page is used.  *)
Popped(a) ==
    LET r == [reg[a] EXCEPT !.top = None, !.tag = 0, !.next = None] IN
      IF r.lifo = "bucket"
      THEN Go(a, "deliver", [r EXCEPT !.head = reg[a].top, !.num = PER])
      ELSE Go(a, "carve", [r EXCEPT !.page = reg[a].top])

(* Mutant of PopCas: the tag is not compared.                              *)
PopCasUntagged(a) ==
    /\ IsAt(a, "pop_cas")
    /\ LET l == reg[a].lifo IN
         \/ /\ p_top[l] = reg[a].top
            /\ p_top' = [p_top EXCEPT ![l] = reg[a].next]
            /\ tag' = [tag EXCEPT ![l] = @ + 1]
            /\ Popped(a)
         \/ /\ Go(a, "pop", [reg[a] EXCEPT !.top = None, !.tag = 0, !.next = None])
            /\ UNCHANGED <<p_top, tag>>
    /\ UNCHANGED <<link, header_next, mem_extra, pages, p_mem_page_empty, pages_freed,
                   partial_bucket, partial_lock, localPoolVars>>

(* The weak compare-and-swap may also fail for no reason.                  *)
PopCas(a) ==
    /\ IsAt(a, "pop_cas")
    /\ LET l == reg[a].lifo IN
         \/ /\ p_top[l] = reg[a].top /\ tag[l] = reg[a].tag
            /\ p_top' = [p_top EXCEPT ![l] = reg[a].next]
            /\ tag' = [tag EXCEPT ![l] = @ + 1]
            /\ Popped(a)
         \/ /\ Go(a, "pop", [reg[a] EXCEPT !.top = None, !.tag = 0, !.next = None])
            /\ UNCHANGED <<p_top, tag>>
    /\ UNCHANGED <<link, header_next, mem_extra, pages, p_mem_page_empty, pages_freed,
                   partial_bucket, partial_lock, localPoolVars>>

Pop(a) == LifoEmpty(a) \/ PopTop(a) \/ PopTag(a) \/ PopNext(a) \/ PopCas(a)

-----------------------------------------------------------------------------
(* ABTI_sync_lifo_push(lifo, elem), followed by point then.                *)

PushTo(a, r, lifo, elem, then) ==
    Go(a, "push", [r EXCEPT !.lifo = lifo, !.elem = elem, !.then = then])

PushTop(a) ==
    /\ IsAt(a, "push")
    /\ Go(a, "push_tag", [reg[a] EXCEPT !.top = p_top[reg[a].lifo]])
    /\ UNCHANGED <<globalPoolVars, localPoolVars>>

PushTag(a) ==
    /\ IsAt(a, "push_tag")
    /\ Go(a, "push_cas", [reg[a] EXCEPT !.tag = tag[reg[a].lifo]])
    /\ link' = [link EXCEPT ![reg[a].lifo] = [@ EXCEPT ![reg[a].elem] = reg[a].top]]
    /\ UNCHANGED <<p_top, tag, header_next, mem_extra, pages, p_mem_page_empty, pages_freed,
                   partial_bucket, partial_lock, localPoolVars>>

PushCas(a) ==
    /\ IsAt(a, "push_cas")
    /\ LET l == reg[a].lifo
           r == [reg[a] EXCEPT !.top = None, !.tag = 0] IN
         \/ /\ p_top[l] = reg[a].top /\ tag[l] = reg[a].tag
            /\ p_top' = [p_top EXCEPT ![l] = r.elem]
            /\ tag' = [tag EXCEPT ![l] = @ + 1]
            /\ Go(a, r.then, IF r.then = "idle" THEN NoReg
                              ELSE [r EXCEPT !.elem = None, !.then = "idle"])
         \/ /\ Go(a, "push", r)
            /\ UNCHANGED <<p_top, tag>>
    /\ UNCHANGED <<link, header_next, mem_extra, pages, p_mem_page_empty, pages_freed,
                   partial_bucket, partial_lock, localPoolVars>>

Push(a) == PushTop(a) \/ PushTag(a) \/ PushCas(a)

-----------------------------------------------------------------------------
(* Headers that are linked by p_next.                                      *)

(* The k-th header from h on.                                              *)
Nth(h, k) ==
    LET f[i \in 1..k] == IF i = 1 THEN h
                         ELSE IF f[i - 1] \in Header THEN header_next[f[i - 1]]
                                                     ELSE None
    IN  f[k]

(* The first n headers from h on; the headers up to the end of the list.   *)
FirstOf(h, n) == {Nth(h, k) : k \in 1..n}

AllOf(h) == {Nth(h, k) : k \in 1..Cardinality(Header)} \cap Header

(* bucket_info and p_next of h.                                            *)
WriteHeader(h, info, next) ==
    /\ link' = [link EXCEPT !["bucket"] = [@ EXCEPT ![h] = info]]
    /\ header_next' = [header_next EXCEPT ![h] = next]

-----------------------------------------------------------------------------
(* mem_pool_return_partial_bucket, for the bucket reg[a].head of           *)
(* reg[a].num headers, and the end of the operation that called it.        *)

(* The operation of a is over; a local pool that got no bucket is not      *)
(* used, as ABTI_mem_init_local fails.                                     *)
Return(a) ==
    /\ Go(a, "idle", NoReg)
    /\ status' = IF reg[a].op = "init" THEN [status EXCEPT ![reg[a].pool] = "gone"]
                                       ELSE status

PartialNew(a) ==
    /\ IsAt(a, "partial") /\ ~partial_lock
    /\ partial_bucket = None
    /\ partial_bucket' = reg[a].head
    /\ link' = [link EXCEPT !["bucket"] = [@ EXCEPT ![reg[a].head] = reg[a].num]]
    /\ Return(a)
    /\ UNCHANGED <<p_top, tag, header_next, mem_extra, pages, p_mem_page_empty, pages_freed,
                   partial_lock, buckets, ext_lock, blocks_used, blocks_left>>

(* Still not enough for a bucket: the new headers go behind the old ones.  *)
PartialConnect(a) ==
    /\ IsAt(a, "partial") /\ ~partial_lock
    /\ partial_bucket # None
    /\ LET np == Info(partial_bucket)
           tail == Nth(partial_bucket, IF np > 1 THEN np ELSE 1) IN
         /\ np + reg[a].num < PER
         /\ header_next' = [header_next EXCEPT ![tail] = reg[a].head]
         /\ link' = [link EXCEPT !["bucket"] =
                        [@ EXCEPT ![reg[a].head] = reg[a].num,
                                  ![partial_bucket] = np + reg[a].num]]
    /\ Return(a)
    /\ UNCHANGED <<p_top, tag, mem_extra, pages, p_mem_page_empty, pages_freed,
                   partial_bucket, partial_lock, buckets, ext_lock, blocks_used, blocks_left>>

(* Mutant of PartialComplete: the loop starts at 0.                        *)
PartialCompleteLong(a) ==
    /\ IsAt(a, "partial") /\ ~partial_lock
    /\ partial_bucket # None
    /\ LET sum == Info(partial_bucket) + reg[a].num
           last == Nth(partial_bucket, PER - reg[a].num + 1)
           new == IF sum = PER THEN None ELSE header_next[last] IN
         /\ sum >= PER
         /\ header_next' = [header_next EXCEPT ![last] = reg[a].head]
         /\ link' = [link EXCEPT !["bucket"] =
                        [h \in Header |-> CASE h = reg[a].head -> reg[a].num
                                            [] h = new         -> PER - sum
                                            [] OTHER           -> @[h]]]
         /\ partial_bucket' = new
    /\ partial_lock' = TRUE
    /\ PushTo(a, [reg[a] EXCEPT !.head = None, !.num = 0], "bucket", partial_bucket,
              "partial_release")
    /\ UNCHANGED <<p_top, tag, mem_extra, pages, p_mem_page_empty, pages_freed, localPoolVars>>

(* The first PER - num headers of partial_bucket complete the bucket, which *)
(* is pushed under the lock.  The rest is the new partial_bucket, with     *)
(* PER - (np + num) for the number of its headers.                         *)
PartialComplete(a) ==
    /\ IsAt(a, "partial") /\ ~partial_lock
    /\ partial_bucket # None
    /\ LET sum == Info(partial_bucket) + reg[a].num
           last == Nth(partial_bucket, PER - reg[a].num)
           new == IF sum = PER THEN None ELSE header_next[last] IN
         /\ sum >= PER
         /\ header_next' = [header_next EXCEPT ![last] = reg[a].head]
         /\ link' = [link EXCEPT !["bucket"] =
                        [h \in Header |-> CASE h = reg[a].head -> reg[a].num
                                            [] h = new         -> PER - sum
                                            [] OTHER           -> @[h]]]
         /\ partial_bucket' = new
    /\ partial_lock' = TRUE
    /\ PushTo(a, [reg[a] EXCEPT !.head = None, !.num = 0], "bucket", partial_bucket,
              "partial_release")
    /\ UNCHANGED <<p_top, tag, mem_extra, pages, p_mem_page_empty, pages_freed, localPoolVars>>

PartialRelease(a) ==
    /\ IsAt(a, "partial_release")
    /\ partial_lock' = FALSE
    /\ Return(a)
    /\ UNCHANGED <<p_top, tag, link, header_next, mem_extra, pages, p_mem_page_empty,
                   pages_freed, partial_bucket, buckets, ext_lock, blocks_used, blocks_left>>

ReturnPartial(a) ==
    PartialNew(a) \/ PartialConnect(a) \/ PartialComplete(a) \/ PartialRelease(a)

-----------------------------------------------------------------------------
(* ABTI_mem_pool_take_bucket, once the LIFO of buckets was empty.          *)

(* No page has memory left: a fresh one is allocated...                    *)
PageAlloc(a) ==
    /\ IsAt(a, "page_alloc")
    /\ pages # Page
    /\ LET p == Cardinality(pages) + 1 IN
         /\ pages' = pages \cup {p}
         /\ Go(a, "carve", [reg[a] EXCEPT !.page = p])
    /\ UNCHANGED <<p_top, tag, link, header_next, mem_extra, p_mem_page_empty, pages_freed,
                   partial_bucket, partial_lock, localPoolVars>>

(* ...or cannot be: the operation fails, after it has given back the       *)
(* headers it had carved.                                                  *)
PageAllocFails(a) ==
    /\ IsAt(a, "page_alloc")
    /\ pages = Page
    /\ IF reg[a].num # 0 THEN Go(a, "partial", reg[a]) /\ UNCHANGED status
                         ELSE Return(a)
    /\ UNCHANGED <<globalPoolVars, buckets, ext_lock, blocks_used, blocks_left>>

(* Mutant of Carve: a page with memory left is not pushed back.            *)
CarveOnce(a) ==
    /\ IsAt(a, "carve")
    /\ LET p == reg[a].page
           provided == Min({mem_extra[p], PER - reg[a].num})
           first == p * PPG - mem_extra[p] + 1 IN
         /\ mem_extra' = [mem_extra EXCEPT ![p] = @ - provided]
         /\ header_next' = [h \in Header |->
                          IF h \in first..(first + provided - 1)
                          THEN IF h = first THEN reg[a].head ELSE h - 1
                          ELSE header_next[h]]
         /\ Go(a, "carved", [reg[a] EXCEPT !.page = None, !.head = first + provided - 1,
                                           !.num = @ + provided])
         /\ p_mem_page_empty' = IF mem_extra'[p] # 0 THEN p_mem_page_empty
                                                     ELSE p_mem_page_empty \cup {p}
    /\ UNCHANGED <<p_top, tag, link, pages, pages_freed, partial_bucket, partial_lock,
                   localPoolVars>>

(* What the page has to offer, up to a bucket, is linked before the        *)
(* headers a has; the page goes to the LIFO, or to the list of empty pages *)
(* (a list that is only pushed to).                                        *)
Carve(a) ==
    /\ IsAt(a, "carve")
    /\ LET p == reg[a].page
           provided == Min({mem_extra[p], PER - reg[a].num})
           first == p * PPG - mem_extra[p] + 1
           r == [reg[a] EXCEPT !.page = None, !.head = first + provided - 1,
                               !.num = @ + provided] IN
         /\ mem_extra' = [mem_extra EXCEPT ![p] = @ - provided]
         /\ header_next' = [h \in Header |->
                          IF h \in first..(first + provided - 1)
                          THEN IF h = first THEN reg[a].head ELSE h - 1
                          ELSE header_next[h]]
         /\ IF mem_extra'[p] # 0
            THEN /\ PushTo(a, r, "page", p, "carved")
                 /\ UNCHANGED p_mem_page_empty
            ELSE /\ Go(a, "carved", r)
                 /\ p_mem_page_empty' = p_mem_page_empty \cup {p}
    /\ UNCHANGED <<p_top, tag, link, pages, pages_freed, partial_bucket, partial_lock,
                   localPoolVars>>

Carved(a) ==
    /\ IsAt(a, "carved")
    /\ IF reg[a].num = PER THEN Go(a, "deliver", reg[a]) ELSE PopTo(a, reg[a], "page")
    /\ UNCHANGED <<globalPoolVars, localPoolVars>>

(* The caller gets the bucket: ABTI_mem_pool_alloc hands out the last      *)
(* header it had before, ABTI_mem_pool_init_local_pool has its first one.  *)
Deliver(a) ==
    /\ IsAt(a, "deliver")
    /\ LET l == reg[a].pool
           h == reg[a].head IN
         /\ buckets' = [buckets EXCEPT ![l] = <<h>>]
         /\ \/ /\ reg[a].op = "alloc"
               /\ blocks_used' = blocks_used \cup {Current(l)}
               /\ link' = [link EXCEPT !["bucket"] = [@ EXCEPT ![h] = PER,
                                                        ![Current(l)] = UserData]]
               /\ header_next' = [header_next EXCEPT ![Current(l)] = UserData]
               /\ UNCHANGED status
            \/ /\ reg[a].op = "init"
               /\ status' = [status EXCEPT ![l] = "live"]
               /\ link' = [link EXCEPT !["bucket"] = [@ EXCEPT ![h] = PER]]
               /\ UNCHANGED <<blocks_used, header_next>>
    /\ Go(a, "idle", NoReg)
    /\ UNCHANGED <<p_top, tag, mem_extra, pages, p_mem_page_empty, pages_freed,
                   partial_bucket, partial_lock, ext_lock, blocks_left>>

TakeBucket(a) == PageAlloc(a) \/ PageAllocFails(a) \/ Carve(a) \/ Carved(a) \/ Deliver(a)

-----------------------------------------------------------------------------
(* ABTI_mem_pool_alloc on the local pool of ES a.                          *)

CallAlloc(a) ==
    /\ a \in MEM_ES /\ Working(a) /\ IsAt(a, "idle")
    /\ blocks_left[a] > 0
    /\ blocks_left' = [blocks_left EXCEPT ![a] = @ - 1]
    /\ UNCHANGED <<p_top, tag, mem_extra, pages, p_mem_page_empty, pages_freed,
                   partial_bucket, partial_lock, status, ext_lock>>

(* The current bucket has another header.                                  *)
AllocFast(a) ==
    /\ CallAlloc(a)
    /\ LET cur == Current(a)
           next == header_next[cur] IN
         /\ Info(cur) > 1
         /\ link' = [link EXCEPT !["bucket"] = [@ EXCEPT ![next] = Info(cur) - 1,
                                                          ![cur] = UserData]]
         /\ header_next' = [header_next EXCEPT ![cur] = UserData]
         /\ buckets' = [buckets EXCEPT ![a] = Append(Front(@), next)]
         /\ blocks_used' = blocks_used \cup {cur}
    /\ UNCHANGED <<mem_pc, reg>>

(* It has not, but there is a full bucket below it.                        *)
AllocLower(a) ==
    /\ CallAlloc(a)
    /\ Info(Current(a)) = 1
    /\ Len(buckets[a]) > 1
    /\ buckets' = [buckets EXCEPT ![a] = Front(@)]
    /\ blocks_used' = blocks_used \cup {Current(a)}
    /\ WriteHeader(Current(a), UserData, UserData)
    /\ UNCHANGED <<mem_pc, reg>>

(* It was the last header of the pool: a bucket is taken first.            *)
AllocLast(a) ==
    /\ CallAlloc(a)
    /\ Info(Current(a)) = 1
    /\ Len(buckets[a]) = 1
    /\ PopTo(a, [NoReg EXCEPT !.pool = a, !.op = "alloc"], "bucket")
    /\ UNCHANGED <<link, header_next, buckets, blocks_used>>

-----------------------------------------------------------------------------
(* ABTI_mem_pool_free of block h into the local pool l.                    *)

FreeReturns(a, l, after) ==
    Go(a, after, IF after = "idle" THEN NoReg
                 ELSE [NoReg EXCEPT !.pool = l, !.op = "free"])

FreeInto(a, l, h, after) ==
    LET cur == Current(l)
        full == Info(cur) = PER IN
      \/ /\ ~full
         /\ WriteHeader(h, Info(cur) + 1, cur)
         /\ buckets' = [buckets EXCEPT ![l] = Append(Front(@), h)]
         /\ FreeReturns(a, l, after)
      \/ /\ full
         /\ Len(buckets[l]) = 1
         /\ WriteHeader(h, 1, None)
         /\ buckets' = [buckets EXCEPT ![l] = Append(@, h)]
         /\ FreeReturns(a, l, after)
      \/ /\ full
         /\ Len(buckets[l]) = 2
         /\ WriteHeader(h, 1, None)
         /\ buckets' = [buckets EXCEPT ![l] = Append(Tail(@), h)]
         /\ PushTo(a, [NoReg EXCEPT !.pool = l, !.op = "free"], "bucket",
                   Head(buckets[l]), after)

(* By a thread of ES a: any block in use, whoever allocated it.            *)
Free(a, h) ==
    /\ a \in MEM_ES /\ Working(a) /\ IsAt(a, "idle")
    /\ blocks_left[a] > 0
    /\ blocks_left' = [blocks_left EXCEPT ![a] = @ - 1]
    /\ h \in blocks_used
    /\ blocks_used' = blocks_used \ {h}
    /\ FreeInto(a, a, h, "idle")
    /\ UNCHANGED <<p_top, tag, mem_extra, pages, p_mem_page_empty, pages_freed,
                   partial_bucket, partial_lock, status, ext_lock>>

(* By an external thread, which takes the lock of the pool.                *)
ExtAcquire(a, h) ==
    /\ a \in MEM_EXT /\ Working(a) /\ IsAt(a, "idle")
    /\ blocks_left[a] > 0
    /\ blocks_left' = [blocks_left EXCEPT ![a] = @ - 1]
    /\ h \in blocks_used
    /\ blocks_used' = blocks_used \ {h}
    /\ ~ext_lock
    /\ ext_lock' = TRUE
    /\ Go(a, "ext_free", [NoReg EXCEPT !.pool = ext, !.op = "free", !.head = h, !.num = 1])
    /\ UNCHANGED <<globalPoolVars, buckets, status>>

ExtFree(a) ==
    /\ IsAt(a, "ext_free")
    /\ FreeInto(a, ext, reg[a].head, "ext_release")
    /\ UNCHANGED <<p_top, tag, mem_extra, pages, p_mem_page_empty, pages_freed,
                   partial_bucket, partial_lock, status, ext_lock, blocks_used, blocks_left>>

ExtRelease(a) ==
    /\ IsAt(a, "ext_release")
    /\ ext_lock' = FALSE
    /\ Go(a, "idle", NoReg)
    /\ UNCHANGED <<globalPoolVars, buckets, status, blocks_used, blocks_left>>

-----------------------------------------------------------------------------
(* Local pools come and go with the ESs.  A pool is used by its ES between *)
(* ABT_xstream_create and the end of the join in ABT_xstream_free.         *)

(* ABT_xstream_create of x by a.                                           *)
Create(a, x) ==
    /\ Working(a) /\ IsAt(a, "idle")
    /\ status[x] = "none"
    /\ status' = [status EXCEPT ![x] = "init"]
    /\ PopTo(a, [NoReg EXCEPT !.pool = x, !.op = "init"], "bucket")
    /\ UNCHANGED <<globalPoolVars, buckets, ext_lock, blocks_used, blocks_left>>

(* ABTI_mem_pool_destroy_local_pool of l: full buckets are returned...     *)
StartDestroy(a, l) ==
    /\ status[l] = "live"
    /\ IsAt(a, "idle")
    /\ status' = [status EXCEPT ![l] = "gone"]
    /\ Go(a, "destroy", [NoReg EXCEPT !.pool = l, !.op = "destroy"])
    /\ UNCHANGED <<globalPoolVars, buckets, ext_lock, blocks_used, blocks_left>>

DestroyFull(a) ==
    /\ IsAt(a, "destroy")
    /\ LET l == reg[a].pool
           b == buckets[l] IN
         /\ Len(b) > 1 \/ Info(b[1]) = PER
         /\ buckets' = [buckets EXCEPT ![l] = Tail(@)]
         /\ PushTo(a, reg[a], "bucket", Head(b), IF Len(b) > 1 THEN "destroy" ELSE "idle")
    /\ UNCHANGED <<globalPoolVars, status, ext_lock, blocks_used, blocks_left>>

(* ...one that is not is left to the others that are not.                  *)
DestroyPartial(a) ==
    /\ IsAt(a, "destroy")
    /\ LET l == reg[a].pool
           b == buckets[l] IN
         /\ Len(b) = 1 /\ Info(b[1]) # PER
         /\ buckets' = [buckets EXCEPT ![l] = <<>>]
         /\ Go(a, "partial", [reg[a] EXCEPT !.head = b[1], !.num = Info(b[1])])
    /\ UNCHANGED <<globalPoolVars, status, ext_lock, blocks_used, blocks_left>>

(* ABT_xstream_free of x by a.                                             *)
FreeXstream(a, x) ==
    /\ Working(a)
    /\ x \in MEM_ES \ {a, PRIMARY_ES}
    /\ Working(x) /\ IsAt(x, "idle")
    /\ StartDestroy(a, x)

(* ABT_finalize, with no other thread at work: the pool of the primary ES, *)
(* that of the external threads, and all pages.                            *)
Finalize ==
    /\ \A a \in Actor : IsAt(a, "idle")
    /\ \A x \in MEM_ES \ {PRIMARY_ES} : status[x] \in {"none", "gone"}
    /\ \/ StartDestroy(PRIMARY_ES, PRIMARY_ES)
       \/ status[PRIMARY_ES] = "gone" /\ StartDestroy(PRIMARY_ES, ext)

(* ABTI_mem_pool_destroy_global_pool pops the LIFO of pages and walks the  *)
(* list of empty ones.                                                     *)
DestroyGlobalPool ==
    /\ status[ext] = "gone"
    /\ \A a \in Actor : IsAt(a, "idle")
    /\ pages_freed = {}
    /\ LET f[i \in 1..MAXPAGE] == IF i = 1 THEN p_top["page"]
                                  ELSE IF f[i - 1] = None THEN None
                                  ELSE link["page"][f[i - 1]]
       IN  pages_freed' = ({f[i] : i \in 1..MAXPAGE} \ {None}) \cup p_mem_page_empty
    /\ p_top' = [p_top EXCEPT !["page"] = None]
    /\ UNCHANGED <<tag, link, header_next, mem_extra, pages, p_mem_page_empty,
                   partial_bucket, partial_lock, localPoolVars, mem_pc, reg>>

-----------------------------------------------------------------------------

Step(a) ==
    \/ Pop(a) \/ Push(a) \/ ReturnPartial(a) \/ TakeBucket(a)
    \/ AllocFast(a) \/ AllocLower(a) \/ AllocLast(a)
    \/ \E h \in Header : Free(a, h) \/ ExtAcquire(a, h)
    \/ ExtFree(a) \/ ExtRelease(a)
    \/ \E x \in MEM_ES : Create(a, x) \/ FreeXstream(a, x)
    \/ DestroyFull(a) \/ DestroyPartial(a)

MemPoolWork ==
    \/ \E a \in Actor : Step(a)
    \/ Finalize \/ DestroyGlobalPool

MemPoolDone == pages_freed # {}

MemPoolNext ==
    \/ MemPoolWork
    \/ MemPoolDone /\ UNCHANGED memPoolVars

MemPoolSpec == MemPoolInit /\ [][MemPoolNext]_memPoolVars

-----------------------------------------------------------------------------
(* Where the headers are.                                                  *)

(* The buckets of the global pool: the LIFO, from the top.                 *)
BucketLifo ==
    LET f[i \in 1..Cardinality(Header)] ==
            IF i = 1 THEN p_top["bucket"]
            ELSE IF f[i - 1] \in Header THEN link["bucket"][f[i - 1]] ELSE None
    IN  {f[i] : i \in 1..Cardinality(Header)} \ {None}

(* The headers of bucket i of the local pool l.                            *)
LocalBucket(l, i) ==
    FirstOf(buckets[l][i], IF i = Len(buckets[l]) THEN Info(buckets[l][i]) ELSE PER)

(* The headers that thread a holds while it takes or returns a bucket.     *)
Held(a) ==
    FirstOf(reg[a].head, reg[a].num)
      \cup IF reg[a].lifo = "bucket" /\ reg[a].elem # None
           THEN FirstOf(reg[a].elem, PER) ELSE {}

(* The places that hold headers, each with the headers it holds.           *)
HeaderPlaces ==
    {<<"lifo", b, FirstOf(b, PER)>> : b \in BucketLifo}
      \cup UNION {{<<l, i, LocalBucket(l, i)>> : i \in 1..Len(buckets[l])} : l \in LocalPool}
      \cup {<<"held", a, Held(a)>> : a \in Actor}
      \cup {<<"in use", 0, blocks_used>>, <<"partial", 0, AllOf(partial_bucket)>>}

-----------------------------------------------------------------------------

(* No block is in two places: in use twice, in use and in a pool, in two   *)
(* buckets.  A thread of the LIFO that wins its compare-and-swap with a    *)
(* bucket that was popped and pushed again meanwhile violates it, as does  *)
(* a bucket cut wrongly out of partial_bucket (abti_sync_lifo.h, mem_pool.c). *)
HeaderInOnePlace ==
    LET places == HeaderPlaces IN
      \A p, q \in places : p # q => p[3] \cap q[3] \cap Header = {}

(* Every bucket of the global pool consists of PER headers, although no    *)
(* count goes with it; the current bucket of a local pool of as many as    *)
(* its count says, at least one (the assertion of ABTI_mem_pool_alloc).    *)
(* The count of partial_bucket may be wrong, but is never too high.        *)
BucketsComplete ==
    /\ \A b \in BucketLifo : FirstOf(b, PER) \subseteq Header
                             /\ Cardinality(FirstOf(b, PER)) = PER
    /\ \A l \in LocalPool : buckets[l] # <<>> =>
         /\ Info(Current(l)) \in 1..PER
         /\ \A i \in 1..Len(buckets[l]) :
               /\ LocalBucket(l, i) \subseteq Header
               /\ Cardinality(LocalBucket(l, i))
                    = IF i = Len(buckets[l]) THEN Info(Current(l)) ELSE PER
    /\ partial_bucket # None => Info(partial_bucket) <= Cardinality(AllOf(partial_bucket))

(* ABT_finalize gives every page back: none got lost between the LIFO of   *)
(* pages and the list of empty ones.                                       *)
PagesFreed == pages_freed # {} => pages_freed = pages

(* What abti_mem_pool.h says of partial_bucket: its number of headers is   *)
(* stored in bucket_info.num_headers of the first one.                     *)
PartialBucketCounted ==
    partial_bucket # None => Info(partial_bucket) = Cardinality(AllOf(partial_bucket))
=============================================================================
