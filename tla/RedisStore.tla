----------------------------- MODULE RedisStore -----------------------------
(***************************************************************************)
(* The typed commands of RedisStore (core/src/stores_redis.rs): what each  *)
(* method refuses before it sends anything, which command it sends, and    *)
(* what becomes of it when the operation timeout drops the reply.          *)
(*                                                                         *)
(* A method is an operator that yields an outcome: the database after the  *)
(* command, the reply, and the list values it took out.  The commands'     *)
(* effects are Redis's; keys are the prefixed ones.  One family of         *)
(* commands is exercised in a behaviour.  Numbers are counters, scores and *)
(* stream ids; a bitmap is one byte, the set of its bits.                  *)
(***************************************************************************)
EXTENDS Integers, FiniteSets, Sequences, SequencesExt, FiniteSetsExt

CONSTANTS
  Keys, Members,
  Groups, Consumers,
  Families,      \* the command families to exercise
  MaxNumber,     \* bound: counters, scores, stream ids
  MaxBlocked     \* bound: blocking pops at one time

VARIABLES
  family,
  db,        \* per key: [kind, v, ttl], kind "none" when it is missing
  reply,     \* what the last completed method returned
  blocked,   \* blocking pops the server still has: [keys, side, abandoned]
  ledger     \* history: pushed, returned and discarded list values;
             \* stream entries delivered and not acknowledged, per group

vars == <<family, db, reply, blocked, ledger>>

None == [kind |-> "none", ttl |-> FALSE]
Nothing == "nothing"
Numbers == 0..MaxNumber
Bits == 0..1

Kinds == {"none", "string", "bitmap", "hll", "hash", "list", "set", "zset", "stream"}
Tags == {"Ok", "InvalidTtl", "InvalidArgument", "Redis", "Timeout"}

TypeOK ==
  /\ family \in Families
  /\ \A k \in Keys : db[k].kind \in Kinds /\ db[k].ttl \in BOOLEAN
  /\ reply.tag \in Tags
  /\ blocked \subseteq [keys : SUBSET Keys, side : {"Left", "Right"}, abandoned : BOOLEAN]
  /\ ledger.pushed \subseteq Members

Init ==
  /\ family \in Families
  /\ db = [k \in Keys |-> None]
  /\ reply = [tag |-> "Ok", v |-> Nothing]
  /\ blocked = {}
  /\ ledger = [pushed |-> {}, returned |-> {}, discarded |-> {}, delivered |-> {}]

-----------------------------------------------------------------------------

Reply(v) == [tag |-> "Ok", v |-> v]
Outcome(d, r) == [db |-> d, reply |-> r, taken |-> {}, put |-> {}]
Answer(v) == Outcome(db, Reply(v))
Refuse(tag) == Outcome(db, [tag |-> tag, v |-> Nothing])

\* WRONGTYPE, an error of the server
Typed(k, kind, outcome) == IF db[k].kind \in {"none", kind} THEN outcome ELSE Refuse("Redis")

At(k, empty) == IF db[k].kind = "none" THEN empty ELSE db[k].v
Exists(k) == db[k].kind # "none"
Store(d, k, kind, v) == [d EXCEPT ![k] = [kind |-> kind, v |-> v, ttl |-> d[k].ttl]]

\* an aggregate that becomes empty is removed
Fill(d, k, kind, v, empty) == IF v = empty THEN [d EXCEPT ![k] = None] ELSE Store(d, k, kind, v)

Options == {"none", "zero", "some"}   \* an Option<Duration> or Option<usize>

\* what the helpers that assemble a command refuse
append_scan_options(count) == count # "zero"
append_stream_read_options(count) == count # "zero"
append_streams(streamless) == ~streamless

\* instrument: the reply, or the operation timeout that drops it once the
\* command is out.  The bound is on the numbers a command may store.
Small(d) ==
  \A k \in Keys : /\ d[k].kind = "string" => d[k].v \in Numbers
                  /\ d[k].kind \in {"hash", "zset"} => Range(d[k].v) \subseteq Numbers

Note(outcome, delivered) ==
  [ledger EXCEPT !.pushed = @ \cup outcome.put,
                 !.returned = IF delivered THEN @ \cup outcome.taken ELSE @,
                 !.discarded = IF delivered THEN @ ELSE @ \cup outcome.taken]

Run(outcome) ==
  /\ Small(outcome.db)
  /\ db' = outcome.db
  /\ reply' = outcome.reply \/ reply' = [tag |-> "Timeout", v |-> Nothing]
  /\ ledger' = Note(outcome, reply'.tag # "Timeout")
  /\ UNCHANGED <<family, blocked>>

-----------------------------------------------------------------------------
(* keys and strings                                                        *)

get(k) == Typed(k, "string", Answer(At(k, Nothing)))

set(k, n, ttl) ==
  IF ttl = "zero" THEN Refuse("InvalidTtl")
  ELSE Outcome([db EXCEPT ![k] = [kind |-> "string", v |-> n, ttl |-> ttl = "some"]], Reply(Nothing))


set_if_absent(k, n, ttl) ==
  IF ttl = "zero" THEN Refuse("InvalidTtl")
  ELSE IF Exists(k) THEN Answer(FALSE)
  ELSE Outcome([db EXCEPT ![k] = [kind |-> "string", v |-> n, ttl |-> ttl = "some"]], Reply(TRUE))

get_many(ks) == Answer([k \in ks |-> IF db[k].kind = "string" THEN db[k].v ELSE Nothing])

set_many(ks, n) ==
  Outcome([k \in Keys |-> IF k \in ks THEN [kind |-> "string", v |-> n, ttl |-> FALSE] ELSE db[k]],
          Reply(Nothing))

delete(ks) ==
  IF ks = {} THEN Answer(0)
  ELSE Outcome([k \in Keys |-> IF k \in ks THEN None ELSE db[k]], Reply(Cardinality({k \in ks : Exists(k)})))

\* One page here holds every key.
scan_keys(count) == IF ~append_scan_options(count) THEN Refuse("InvalidArgument") ELSE Answer({k \in Keys : Exists(k)})

exists(k) == Answer(Exists(k))

increment(k, n) ==
  LET sum == At(k, 0) + n
  IN  Typed(k, "string", Outcome(Store(db, k, "string", sum), Reply(sum)))

decrement(k, n) == increment(k, -n)

expire(k, zero) ==
  IF zero THEN Refuse("InvalidTtl")
  ELSE IF Exists(k) THEN Outcome([db EXCEPT ![k].ttl = TRUE], Reply(TRUE)) ELSE Answer(FALSE)

persist(k) == Outcome([db EXCEPT ![k].ttl = FALSE], Reply(db[k].ttl))

ttl(k) == Answer(IF ~Exists(k) THEN "Missing" ELSE IF db[k].ttl THEN "ExpiresIn" ELSE "Persistent")

Strings ==
  \/ \E k \in Keys : \/ Run(get(k)) \/ Run(exists(k)) \/ Run(persist(k)) \/ Run(ttl(k))
                     \/ Run(increment(k, 1)) \/ Run(decrement(k, 1))
                     \/ \E zero \in BOOLEAN : Run(expire(k, zero))
                     \/ \E n \in Numbers, t \in Options : Run(set(k, n, t)) \/ Run(set_if_absent(k, n, t))
  \/ \E ks \in SUBSET Keys : Run(get_many(ks)) \/ Run(delete(ks)) \/ Run(set_many(ks, 0))
  \/ \E count \in Options : Run(scan_keys(count))

-----------------------------------------------------------------------------
(* bitmaps and HyperLogLogs                                                *)

bitmap_get(k, bit) == Typed(k, "bitmap", Answer(bit \in At(k, {})))

bitmap_set(k, bit, value) ==
  LET v == At(k, {})
  IN  Typed(k, "bitmap",
        Outcome(Store(db, k, "bitmap", IF value THEN v \cup {bit} ELSE v \ {bit}), Reply(bit \in v)))

bitmap_count(k) == Typed(k, "bitmap", Answer(Cardinality(At(k, {}))))

\* -1 is None; with no clear bit Redis answers the one after the last
bitmap_position(k, value) ==
  LET found == IF value THEN At(k, {}) ELSE Bits \ At(k, {})
  IN  Typed(k, "bitmap", Answer(IF found # {} THEN Min(found) ELSE IF value THEN Nothing ELSE Cardinality(Bits)))

bitmap_operation(op, destination, sources) ==
  IF (op = "Not" /\ Cardinality(sources) # 1) \/ sources = {} THEN Refuse("InvalidArgument")
  ELSE IF \E k \in sources : db[k].kind \notin {"none", "bitmap"} THEN Refuse("Redis")
  ELSE IF \A k \in sources : ~Exists(k) THEN Outcome([db EXCEPT ![destination] = None], Reply(0))
  ELSE LET bits == {At(k, {}) : k \in sources}
           v == CASE op = "Not" -> Bits \ UNION bits
                  [] op = "And" -> {b \in Bits : \A s \in bits : b \in s}
                  [] op = "Or"  -> UNION bits
                  [] op = "Xor" -> {b \in Bits : Cardinality({k \in sources : b \in At(k, {})}) % 2 = 1}
       IN  Outcome([db EXCEPT ![destination] = [kind |-> "bitmap", v |-> v, ttl |-> FALSE]], Reply(1))

hyperloglog_add(k, values) ==
  IF values = {} THEN Refuse("InvalidArgument")
  ELSE Typed(k, "hll", Outcome(Store(db, k, "hll", At(k, {}) \cup values), Reply(~(values \subseteq At(k, {})))))

hyperloglog_count(ks) ==
  IF ks = {} THEN Refuse("InvalidArgument")
  ELSE IF \E k \in ks : db[k].kind \notin {"none", "hll"} THEN Refuse("Redis")
  ELSE Answer(Cardinality(UNION {At(k, {}) : k \in ks}))

hyperloglog_merge(destination, sources) ==
  IF sources = {} THEN Refuse("InvalidArgument")
  ELSE IF \E k \in sources \cup {destination} : db[k].kind \notin {"none", "hll"} THEN Refuse("Redis")
  ELSE Outcome(Store(db, destination, "hll", UNION {At(k, {}) : k \in sources \cup {destination}}), Reply(Nothing))

Bitmaps ==
  \/ \E k \in Keys, b \in Bits, v \in BOOLEAN :
       Run(bitmap_get(k, b)) \/ Run(bitmap_set(k, b, v)) \/ Run(bitmap_count(k)) \/ Run(bitmap_position(k, v))
  \/ \E k \in Keys, ks \in SUBSET Keys :
       \/ \E op \in {"Not", "And", "Or", "Xor"} : Run(bitmap_operation(op, k, ks))
       \/ Run(hyperloglog_count(ks)) \/ Run(hyperloglog_merge(k, ks)) \/ Run(delete({k}))
       \/ \E ms \in SUBSET Members : Run(hyperloglog_add(k, ms))

-----------------------------------------------------------------------------
(* hashes, sets and sorted sets: a hash and a sorted set are functions     *)

Empty == [m \in {} |-> 0]
Without(f, ms) == [m \in DOMAIN f \ ms |-> f[m]]
Plus(f, m, n) == [x \in DOMAIN f \cup {m} |-> IF x = m THEN n ELSE f[x]]
Value(f, m) == IF m \in DOMAIN f THEN f[m] ELSE 0

\* hash_delete and sorted_set_remove: nothing is sent for an empty slice
RemoveMembers(k, kind, ms) ==
  IF ms = {} THEN Answer(0)
  ELSE Typed(k, kind, Outcome(Fill(db, k, kind, Without(At(k, Empty), ms), Empty),
                              Reply(Cardinality(ms \cap DOMAIN At(k, Empty)))))

hash_get(k, m) == Typed(k, "hash", Answer(IF m \in DOMAIN At(k, Empty) THEN At(k, Empty)[m] ELSE Nothing))
hash_set(k, m, n) ==
  Typed(k, "hash", Outcome(Store(db, k, "hash", Plus(At(k, Empty), m, n)), Reply(m \notin DOMAIN At(k, Empty))))
hash_get_all(k) == Typed(k, "hash", Answer(At(k, Empty)))
hash_scan(k, count) == IF ~append_scan_options(count) THEN Refuse("InvalidArgument") ELSE hash_get_all(k)
hash_delete(k, ms) == RemoveMembers(k, "hash", ms)
hash_increment(k, m, n) ==
  LET sum == Value(At(k, Empty), m) + n
  IN  Typed(k, "hash", Outcome(Store(db, k, "hash", Plus(At(k, Empty), m, sum)), Reply(sum)))

\* set_members_command: nothing is sent for an empty slice
set_add(k, ms) ==
  IF ms = {} THEN Answer(0)
  ELSE Typed(k, "set", Outcome(Store(db, k, "set", At(k, {}) \cup ms), Reply(Cardinality(ms \ At(k, {})))))
set_remove(k, ms) ==
  IF ms = {} THEN Answer(0)
  ELSE Typed(k, "set", Outcome(Fill(db, k, "set", At(k, {}) \ ms, {}), Reply(Cardinality(ms \cap At(k, {})))))
set_members(k) == Typed(k, "set", Answer(At(k, {})))
set_scan(k, count) == IF ~append_scan_options(count) THEN Refuse("InvalidArgument") ELSE set_members(k)
set_move(source, destination, m) ==
  IF {db[source].kind, db[destination].kind} \subseteq {"none", "set"}
  THEN IF m \in At(source, {})
       THEN LET taken == Fill(db, source, "set", At(source, {}) \ {m}, {})
            IN  IF source = destination THEN Answer(TRUE)
                ELSE Outcome(Store(taken, destination, "set", At(destination, {}) \cup {m}), Reply(TRUE))
       ELSE Answer(FALSE)
  ELSE Refuse("Redis")
set_contains(k, m) == Typed(k, "set", Answer(m \in At(k, {})))
set_len(k) == Typed(k, "set", Answer(Cardinality(At(k, {}))))

\* members by score, equal scores in the members' byte order
Ranked(f) == SetToSortSeq(DOMAIN f, LAMBDA a, b : f[a] < f[b] \/ (f[a] = f[b] /\ a < b))
Scored(f, order) == [i \in DOMAIN order |-> <<order[i], f[order[i]]>>]
ByScore(f, low, high) == {m \in DOMAIN f : low <= f[m] /\ f[m] <= high}

sorted_set_add(k, n, m) ==
  Typed(k, "zset", Outcome(Store(db, k, "zset", Plus(At(k, Empty), m, n)), Reply(m \notin DOMAIN At(k, Empty))))
sorted_set_remove(k, ms) == RemoveMembers(k, "zset", ms)
sorted_set_range_with_scores(k) ==
  Typed(k, "zset", Answer(Scored(At(k, Empty), Ranked(At(k, Empty)))))
sorted_set_reverse_range_with_scores(k) ==
  Typed(k, "zset", Answer(Scored(At(k, Empty), Reverse(Ranked(At(k, Empty))))))
\* A limit of zero entries is answered without asking the server.
sorted_set_score_range(k, low, high, limit) ==
  IF limit = "zero" THEN Answer({})
  ELSE Typed(k, "zset", Answer(ByScore(At(k, Empty), low, high)))
sorted_set_increment(k, n, m) ==
  LET sum == Value(At(k, Empty), m) + n
  IN  Typed(k, "zset", Outcome(Store(db, k, "zset", Plus(At(k, Empty), m, sum)), Reply(sum)))
sorted_set_rank(k, m, reverse) ==
  LET f == At(k, Empty)
      order == IF reverse THEN Reverse(Ranked(f)) ELSE Ranked(f)
  IN  Typed(k, "zset", Answer(IF m \in DOMAIN f THEN CHOOSE i \in DOMAIN order : order[i] = m ELSE Nothing))
sorted_set_remove_by_rank(k, start, stop) ==
  LET order == Ranked(At(k, Empty))
      gone == {order[i] : i \in {j \in DOMAIN order : start <= j - 1 /\ j - 1 <= stop}}
  IN  Typed(k, "zset", Outcome(Fill(db, k, "zset", Without(At(k, Empty), gone), Empty), Reply(Cardinality(gone))))
sorted_set_remove_by_score(k, low, high) ==
  LET gone == ByScore(At(k, Empty), low, high)
  IN  Typed(k, "zset", Outcome(Fill(db, k, "zset", Without(At(k, Empty), gone), Empty), Reply(Cardinality(gone))))
sorted_set_scan(k, count) ==
  IF ~append_scan_options(count) THEN Refuse("InvalidArgument") ELSE Typed(k, "zset", Answer(At(k, Empty)))
sorted_set_score(k, m) == Typed(k, "zset", Answer(IF m \in DOMAIN At(k, Empty) THEN At(k, Empty)[m] ELSE Nothing))
sorted_set_len(k) == Typed(k, "zset", Answer(Cardinality(DOMAIN At(k, Empty))))

Hashes ==
  \E k \in Keys :
    \/ \E m \in Members : Run(hash_get(k, m)) \/ Run(hash_increment(k, m, 1)) \/ \E n \in Numbers : Run(hash_set(k, m, n))
    \/ \E ms \in SUBSET Members : Run(hash_delete(k, ms))
    \/ Run(hash_get_all(k)) \/ \E count \in Options : Run(hash_scan(k, count))

Sets ==
  \E k \in Keys :
    \/ \E ms \in SUBSET Members : Run(set_add(k, ms)) \/ Run(set_remove(k, ms))
    \/ \E m \in Members : Run(set_contains(k, m)) \/ \E j \in Keys : Run(set_move(k, j, m))
    \/ Run(set_members(k)) \/ Run(set_len(k)) \/ \E count \in Options : Run(set_scan(k, count))

SortedSets ==
  \E k \in Keys :
    \/ \E m \in Members, n \in Numbers : Run(sorted_set_add(k, n, m)) \/ Run(sorted_set_increment(k, 1, m))
    \/ \E m \in Members : Run(sorted_set_score(k, m)) \/ \E r \in BOOLEAN : Run(sorted_set_rank(k, m, r))
    \/ \E ms \in SUBSET Members : Run(sorted_set_remove(k, ms))
    \/ \E a, b \in Numbers : \/ Run(sorted_set_remove_by_rank(k, a, b)) \/ Run(sorted_set_remove_by_score(k, a, b))
                           \/ \E limit \in Options : Run(sorted_set_score_range(k, a, b, limit))
    \/ Run(sorted_set_range_with_scores(k)) \/ Run(sorted_set_reverse_range_with_scores(k)) \/ Run(sorted_set_len(k))
    \/ \E count \in Options : Run(sorted_set_scan(k, count))

-----------------------------------------------------------------------------
(* lists; every member is pushed at most once, so a value is a token       *)

Side == {"Left", "Right"}
End(s, side) == IF side = "Left" THEN Head(s) ELSE Last(s)
Rest(s, side) == IF side = "Left" THEN Tail(s) ELSE Front(s)
Extend(s, side, v) == IF side = "Left" THEN <<v>> \o s ELSE Append(s, v)
List(k) == At(k, <<>>)

list_len(k) == Typed(k, "list", Answer(Len(List(k))))

list_push(k, side, values) ==
  IF values = <<>> THEN list_len(k)
  ELSE LET s == IF side = "Left" THEN Reverse(values) \o List(k) ELSE List(k) \o values
       IN  Typed(k, "list", [Outcome(Store(db, k, "list", s), Reply(Len(s))) EXCEPT !.put = Range(values)])

list_pop(k, side) ==
  IF List(k) = <<>> THEN Answer(Nothing)
  ELSE [Outcome(Fill(db, k, "list", Rest(List(k), side), <<>>), Reply(End(List(k), side)))
          EXCEPT !.taken = {End(List(k), side)}]

\* Fault: a pop and a push, the value in hand when the destination is read.
list_move_reread(source, destination, from, to) ==
  IF List(source) = <<>> THEN Answer(Nothing)
  ELSE LET v == End(List(source), from)
           popped == Fill(db, source, "list", Rest(List(source), from), <<>>)
       IN  Outcome(Store(popped, destination, "list", Extend(List(destination), to, v)), Reply(v))

list_move(source, destination, from, to) ==
  IF List(source) = <<>> THEN Answer(Nothing)
  ELSE LET v == End(List(source), from)
           popped == Fill(db, source, "list", Rest(List(source), from), <<>>)
           left == IF popped[destination].kind = "none" THEN <<>> ELSE popped[destination].v
       IN  Outcome(Store(popped, destination, "list", Extend(left, to, v)), Reply(v))

list_range(k) == Answer(List(k))

Ready(b) == {k \in b.keys : List(k) # <<>>}

\* list_blocking_pop with nothing to pop: the server keeps the client waiting
Block(ks, side) ==
  /\ Cardinality(blocked) < MaxBlocked
  /\ ks # {} /\ \A k \in ks : List(k) = <<>>
  /\ blocked' = blocked \cup {[keys |-> ks, side |-> side, abandoned |-> FALSE]}
  /\ UNCHANGED <<family, db, reply, ledger>>

list_blocking_pop(ks, side, zero) ==
  \/ (ks = {} \/ zero) /\ Run(Refuse("InvalidArgument"))
  \/ ~zero /\ \E k \in ks : List(k) # <<>> /\ Run(list_pop(k, side))
  \/ ~zero /\ Block(ks, side)

\* The operation timeout ends the call, not what the server is doing for it.
Abandon(b) ==
  /\ ~b.abandoned
  /\ blocked' = (blocked \ {b}) \cup {[b EXCEPT !.abandoned = TRUE]}
  /\ reply' = [tag |-> "Timeout", v |-> Nothing]
  /\ UNCHANGED <<family, db, ledger>>

\* The server serves a blocked client before it runs another command.
ServeBlocked(b) ==
  \E k \in Ready(b) :
    LET outcome == list_pop(k, b.side) IN
    /\ db' = outcome.db
    /\ blocked' = blocked \ {b}
    /\ reply' = IF b.abandoned THEN [tag |-> "Timeout", v |-> Nothing] ELSE outcome.reply
    /\ ledger' = Note(outcome, ~b.abandoned)
    /\ UNCHANGED family

PopElapsed(b) ==
  /\ Ready(b) = {}
  /\ blocked' = blocked \ {b}
  /\ reply' = IF b.abandoned THEN reply ELSE Reply(Nothing)
  /\ UNCHANGED <<family, db, ledger>>

Lists ==
  \/ /\ \A b \in blocked : Ready(b) = {}
     /\ \E k \in Keys, side \in Side :
          \/ \E values \in {s \in SeqOf(Members \ ledger.pushed, 2) : IsInjective(s)} : Run(list_push(k, side, values))
          \/ Run(list_pop(k, side)) \/ Run(list_range(k))
          \/ \E ks \in SUBSET Keys, zero \in BOOLEAN : list_blocking_pop(ks, side, zero)
          \/ \E j \in Keys, to \in Side : Run(list_move(k, j, side, to))
  \/ \E b \in blocked : Abandon(b) \/ ServeBlocked(b) \/ PopElapsed(b)

-----------------------------------------------------------------------------
(* streams: entry ids, the last one given, and per group the last one      *)
(* delivered and the pending entries with their consumers                  *)

NoStream == [ids |-> {}, last |-> 0, groups |-> Empty]
Stream(k) == At(k, NoStream)
Grouped(k, g) == g \in DOMAIN Stream(k).groups
SetGroup(k, g, v) == Store(db, k, "stream", [Stream(k) EXCEPT !.groups = Plus(@, g, v)])

stream_add(k, id, fieldless) ==
  IF fieldless THEN Refuse("InvalidArgument")
  ELSE IF id <= Stream(k).last THEN Refuse("Redis")
  ELSE Outcome(Store(db, k, "stream", [Stream(k) EXCEPT !.ids = @ \cup {id}, !.last = id]), Reply(id))

stream_read(k, after, count, streamless) ==
  IF ~append_stream_read_options(count) \/ ~append_streams(streamless) THEN Refuse("InvalidArgument")
  ELSE Answer({id \in Stream(k).ids : id > after})

stream_group_create(k, g, id, create_stream) ==
  IF Grouped(k, g) \/ (~Exists(k) /\ ~create_stream) THEN Refuse("Redis")
  ELSE Outcome(SetGroup(k, g, [last |-> id, pending |-> Empty]), Reply(Nothing))

stream_group_destroy(k, g) ==
  IF ~Grouped(k, g) THEN Answer(FALSE)
  ELSE Outcome(Store(db, k, "stream", [Stream(k) EXCEPT !.groups = Without(@, {g})]), Reply(TRUE))

\* the new entries of ">"
New(k, g, count) ==
  LET fresh == {id \in Stream(k).ids : id > Stream(k).groups[g].last}
  IN  IF count = "some" /\ fresh # {} THEN {Min(fresh)} ELSE fresh

\* Fault: NOACK goes out with every read.
stream_group_read_unacked(k, g, consumer, count, no_ack) ==
  IF ~append_stream_read_options(count) THEN Refuse("InvalidArgument")
  ELSE IF ~Grouped(k, g) THEN Refuse("Redis")
  ELSE LET ids == New(k, g, count) IN
       Outcome(SetGroup(k, g, [Stream(k).groups[g] EXCEPT !.last = Max(ids \cup {@})]), Reply(ids))

stream_group_read(k, g, consumer, count, no_ack) ==
  IF ~append_stream_read_options(count) THEN Refuse("InvalidArgument")
  ELSE IF ~Grouped(k, g) THEN Refuse("Redis")
  ELSE LET ids == New(k, g, count)
           group == Stream(k).groups[g]
           pending == [id \in DOMAIN group.pending \cup ids |->
                         IF id \in ids THEN consumer ELSE group.pending[id]]
       IN  Outcome(SetGroup(k, g, [last |-> Max(ids \cup {group.last}),
                                   pending |-> IF no_ack THEN group.pending ELSE pending]), Reply(ids))

stream_ack(k, g, ids) ==
  IF ids = {} \/ ~Grouped(k, g) THEN Answer(0)
  ELSE LET group == Stream(k).groups[g]
       IN  Outcome(SetGroup(k, g, [group EXCEPT !.pending = Without(@, ids)]),
                   Reply(Cardinality(ids \cap DOMAIN group.pending)))

stream_pending(k, g) == IF Grouped(k, g) THEN Answer(Stream(k).groups[g].pending) ELSE Refuse("Redis")
stream_info(k) == IF Exists(k) THEN Answer(Stream(k)) ELSE Refuse("Redis")

\* idle: the entries idle for min_idle; a deleted entry leaves the list
stream_claim(k, g, consumer, idle, ids) ==
  IF ids = {} THEN Refuse("InvalidArgument")
  ELSE IF ~Grouped(k, g) THEN Refuse("Redis")
  ELSE LET group == Stream(k).groups[g]
           claimed == ids \cap idle \cap DOMAIN group.pending
           kept == Without(group.pending, claimed \ Stream(k).ids)
       IN  Outcome(SetGroup(k, g, [group EXCEPT !.pending =
                     [id \in DOMAIN kept |-> IF id \in claimed THEN consumer ELSE kept[id]]]),
                   Reply(claimed \cap Stream(k).ids))

stream_delete(k, ids) ==
  IF ids = {} \/ ~Exists(k) THEN Answer(0)
  ELSE Outcome(Store(db, k, "stream", [Stream(k) EXCEPT !.ids = @ \ ids]), Reply(Cardinality(ids \cap Stream(k).ids)))

stream_group_set_id(k, g, id) ==
  IF ~Grouped(k, g) THEN Refuse("Redis")
  ELSE Outcome(SetGroup(k, g, [Stream(k).groups[g] EXCEPT !.last = id]), Reply(Nothing))

\* what an entry's history becomes: owed to a group from delivery to ack
Owe(outcome, owed) ==
  /\ db' = outcome.db
  /\ reply' = outcome.reply \/ reply' = [tag |-> "Timeout", v |-> Nothing]
  /\ ledger' = [ledger EXCEPT !.delivered = owed]
  /\ UNCHANGED <<family, blocked>>

Streams ==
  \E k \in {CHOOSE key \in Keys : TRUE} :
    \/ \E id \in Numbers, fieldless \in BOOLEAN : Run(stream_add(k, id, fieldless))
    \/ \E id \in Numbers, count \in Options, streamless \in BOOLEAN : Run(stream_read(k, id, count, streamless))
    \/ Run(stream_info(k)) \/ \E ids \in SUBSET Numbers : Run(stream_delete(k, ids))
    \/ \E g \in Groups :
         \/ Run(stream_pending(k, g))
         \/ \E id \in Numbers, create \in BOOLEAN :
              Run(stream_group_create(k, g, id, create)) \/ Run(stream_group_set_id(k, g, id))
         \/ Owe(stream_group_destroy(k, g), {o \in ledger.delivered : o[1] # g})
         \/ \E c \in Consumers, count \in Options, no_ack \in BOOLEAN :
              LET read == stream_group_read(k, g, c, count, no_ack)
                  new == IF Grouped(k, g) /\ count # "zero" /\ ~no_ack THEN New(k, g, count) ELSE {}
              IN  Owe(read, ledger.delivered \cup {<<g, id>> : id \in new})
         \/ \E ids \in SUBSET Numbers : Owe(stream_ack(k, g, ids), ledger.delivered \ {<<g, id>> : id \in ids})
         \/ \E c \in Consumers, ids, idle \in SUBSET Numbers : Run(stream_claim(k, g, c, idle, ids))

Next ==
  \/ family = "strings" /\ Strings
  \/ family = "bitmaps" /\ Bitmaps
  \/ family = "hashes" /\ Hashes
  \/ family = "sets" /\ Sets
  \/ family = "sorted sets" /\ SortedSets
  \/ family = "lists" /\ Lists
  \/ family = "streams" /\ Streams

Spec == Init /\ [][Next]_vars

-----------------------------------------------------------------------------

\* A method that reports an invalid argument, or an error of the server, has
\* changed nothing: arguments are examined before the command is sent.
RefusedInert == reply'.tag \in {"InvalidTtl", "InvalidArgument", "Redis"} => db' = db

\* A pushed list value is always in exactly one place: one position of one
\* list, with the caller a pop returned it to, or taken by a pop whose caller
\* had gone (a lost reply, a blocking pop its operation timeout abandoned).
\* list_move never duplicates or drops one, whichever ends and keys it names.
ListValuesConserved ==
  \A v \in ledger.pushed :
    LET places == {<<k, i>> \in Keys \X (1..Cardinality(Members)) :
                     db[k].kind = "list" /\ i <= Len(db[k].v) /\ db[k].v[i] = v}
    IN  Cardinality(places) + Cardinality({v} \cap ledger.returned)
          + Cardinality({v} \cap ledger.discarded) = 1

\* A stream entry read for acknowledgement stays in its group's pending list,
\* where stream_claim finds it, until it is acknowledged: also when the reply
\* that carried it was lost, the cursor was moved or the entry was claimed.
UnackedStaysPending ==
  \A k \in Keys : db[k].kind = "stream" =>
    \A g \in DOMAIN db[k].v.groups : \A id \in db[k].v.ids :
      <<g, id>> \in ledger.delivered => id \in DOMAIN db[k].v.groups[g].pending
=============================================================================
