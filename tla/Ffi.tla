-------------------------------- MODULE Ffi ---------------------------------
(***************************************************************************)
(* The C library (crates/skaidb-ffi/src/lib.rs): which memory is alive     *)
(* after each call, against what include/skaidb.h promises the caller of   *)
(* the pointers it has been given.                                         *)
(*                                                                         *)
(* A slot holds one boxed object.  A promise is a pointer the caller may    *)
(* still read according to the header: the memory it points into, and the  *)
(* event that ends it.  A call ends promises, as the header says, and      *)
(* frees memory, as the code does; a promise that outlives its memory      *)
(* dangles.  The caller keeps the header's contract: a client with an open *)
(* stream is not used, and freeing that client abandons the stream.        *)
(***************************************************************************)
EXTENDS FiniteSets, Integers

CONSTANTS
    Caller,
    Slot,           \* boxes alive at once
    MaxPromises     \* bound on pointers the caller keeps

ASSUME FfiAssumption == MaxPromises \in Nat /\ Slot \subseteq Nat /\ Slot \intersect Caller = {}

VARIABLES
    object,         \* slot -> the object boxed there
    promised

ffiVars == <<object, promised>>

NoObject == [kind |-> "none", client |-> 0]

Holding(kind) == [NoObject EXCEPT !.kind = kind]

FfiInit == object = [s \in Slot |-> NoObject] /\ promised = {}

-----------------------------------------------------------------------------
(* Promises *)

\* Promises that end when the object in s is freed, when the stream in s moves
\* to its next row, at the next call of t, at the next key t asks for.
Of(s) == {p \in promised : p.until = "free" /\ p.of = s}

OfRow(s) == {p \in promised : p.until = "next" /\ p.of = s}

OfCall(t) == {p \in promised : p.until = "call" /\ p.of = t}

OfKey(t) == {p \in promised : p.until = "key" /\ p.of = t}

\* The promises into a region.
Into(owner, names) == {p \in promised : p.owner = owner /\ p.region \in names}

\* A call of t that ends some promises, frees the memory of some, makes others.
After(t, ended, freed, made) ==
    promised' = {[p EXCEPT !.dangling = @ \/ p \in freed] : p \in promised \ (ended \union OfCall(t))} \union made

Pointer(owner, region, until, of) ==
    [owner |-> owner, region |-> region, until |-> until, of |-> of, dangling |-> FALSE]

\* A call that only gives out a pointer.
Promise(t, owner, region, until, of) ==
    /\ Cardinality(promised) < MaxPromises
    /\ After(t, {}, {}, {Pointer(owner, region, until, of)})
    /\ UNCHANGED object

Nothing(t) == After(t, {}, {}, {}) /\ UNCHANGED object

Streams(c) == {s \in Slot : object[s] = [kind |-> "stream", client |-> c]}

\* A client the caller may use.
Usable(c) == object[c].kind = "client" /\ Streams(c) = {}

-----------------------------------------------------------------------------
(* Errors *)

\* set_error: the message replaces the thread's last one.
Replaced(t) == Into(t, {"error"})

fail(t) == After(t, {}, Replaced(t), {}) /\ UNCHANGED object

skaidb_last_error(t) == Promise(t, t, "error", "call", t)

NewBox(t, o) ==
    /\ \E s \in Slot : /\ object[s] = NoObject
                       /\ \A r \in Slot : r < s => object[r] # NoObject
                       /\ object' = [object EXCEPT ![s] = o]
    /\ After(t, {}, {}, {})

\* The object in a new box, or the error, with *out untouched.
boxed(t, o) == NewBox(t, o) \/ fail(t)

\* Dropping the box in s, with all it owns.
Drop(t, s) ==
    /\ object' = [object EXCEPT ![s] = NoObject]
    /\ After(t, Of(s) \union OfRow(s), {p \in promised : p.owner = s}, {})

-----------------------------------------------------------------------------
(* Clients and statements *)

skaidb_connect(t) == boxed(t, Holding("client"))

\* A stream of the client is abandoned: its box stays, and no call may name it.
skaidb_client_free(t, c) ==
    /\ object[c].kind = "client"
    /\ object' = [s \in Slot |-> CASE s = c -> NoObject
                                   [] s \in Streams(c) -> Holding("abandoned")
                                   [] OTHER -> object[s]]
    /\ After(t, {}, {p \in promised : p.owner = c}, {})

\* use_database, set_consistency, set_scan_budget_rows, add_endpoints, reconnect.
ClientCall(t, c) == Usable(c) /\ (Nothing(t) \/ fail(t))

skaidb_client_endpoint_dup(t, c) == Usable(c) /\ NewBox(t, Holding("string"))

skaidb_string_free(t, s) == object[s].kind = "string" /\ Drop(t, s)

\* result_of: rows, several sets, an error's message, or a result that owns
\* nothing (a mutation, DDL).
result_of == {Holding(kind) : kind \in {"rows", "sets", "error", "plain"}}

skaidb_execute(t, c) == Usable(c) /\ \E o \in result_of : boxed(t, o)

skaidb_prepare(t, c) == Usable(c) /\ boxed(t, Holding("prepared"))

skaidb_prepared_free(t, s) == object[s].kind = "prepared" /\ Drop(t, s)

skaidb_execute_prepared(t, c, s) ==
    Usable(c) /\ object[s].kind = "prepared" /\ \E o \in result_of : boxed(t, o)

skaidb_execute_batch(t, c, s) == object[s].kind = "prepared" /\ ClientCall(t, c)

skaidb_pipeline(t, c) == Usable(c) /\ boxed(t, Holding("results"))

-----------------------------------------------------------------------------
(* Borrowed pointers *)

\* results_get, result_set, result_error, members_get
Inner(t, s) ==
    object[s].kind \in {"error", "sets", "results", "members"} /\ Promise(t, s, "inner", "free", s)

\* Of a result, or of one inside it.
skaidb_result_column_name(t, s) ==
    object[s].kind \in {"rows", "sets", "results"} /\ Promise(t, s, "columns", "free", s)

skaidb_result_cell(t, s) ==
    object[s].kind \in {"rows", "sets", "results"} /\ Promise(t, s, "row", "free", s)

\* The values the caller may read in s, by what ends them: its own value, a
\* cell of a result, a cell of a stream's row.
Values(s) == {p.until : p \in Into(s, {"row"})} \union {u \in {"free"} : object[s].kind = "value"}

\* get_string, get_bytes, get_uuid, array_get, document_value, document_get: a
\* view of the value's own memory.
View(t, s) == \E until \in Values(s) : Promise(t, s, "part", until, s)

\* The key is copied into the thread's scratch string.
skaidb_value_document_key(t, s) ==
    /\ Values(s) # {} /\ Cardinality(promised \ OfKey(t)) < MaxPromises
    /\ After(t, OfKey(t), Into(t, {"key"}), {Pointer(t, "key", "key", t)})
    /\ UNCHANGED object

\* The scalar accessors, lengths and kinds.
Read(t, s) == object[s] # NoObject /\ Nothing(t)

\* result_free, results_free, value_free, members_free
Free(t, s) ==
    object[s].kind \in {"rows", "sets", "error", "plain", "results", "value", "members"} /\ Drop(t, s)

-----------------------------------------------------------------------------
(* Streams *)

open_stream(t, c) == Usable(c) /\ boxed(t, [kind |-> "stream", client |-> c])

skaidb_stream_column_name(t, s) == object[s].kind = "stream" /\ Promise(t, s, "columns", "free", s)

\* A row replaces the current one.  At the end, and on an error, the row that
\* was current is kept though nothing promises it.
skaidb_stream_next(t, s) ==
    /\ object[s].kind = "stream"
    /\ \/ After(t, OfRow(s), Into(s, {"row", "part"}), {Pointer(s, "row", "next", s)})
       \/ After(t, OfRow(s), {}, {})
       \/ After(t, OfRow(s), Replaced(t), {})
    /\ UNCHANGED object

\* Mutant of NamesReplaced: the names of the set left behind are dropped.
NamesDropped(s) == Into(s, {"columns"})

\* What the new names free: nothing, since past_columns keeps the old ones.
NamesReplaced(s) == {}

skaidb_stream_next_set(t, s) ==
    /\ object[s].kind = "stream"
    /\ After(t, {}, NamesReplaced(s), {}) \/ After(t, {}, {}, {})
    /\ UNCHANGED object

skaidb_stream_free(t, s) == object[s].kind = "stream" /\ Drop(t, s)

\* The events and, when they came, the cursor.
skaidb_stream_poll(t, c) ==
    /\ Usable(c)
    /\ \/ /\ \E s, r \in Slot :
                /\ s < r /\ {q \in Slot : q <= r /\ object[q] = NoObject} = {s, r}
                /\ object' = [object EXCEPT ![s] = Holding("rows"), ![r] = Holding("string")]
          /\ After(t, {}, {}, {})
       \/ fail(t)

-----------------------------------------------------------------------------
(* Values and pools *)

\* value_box, by every constructor: items are copied.  A refused argument is
\* NULL, with a message or without.
value_box(t) == Nothing(t) \/ boxed(t, Holding("value"))

\* to_string_dup, to_json_dup
ToDup(t, s) == Values(s) # {} /\ NewBox(t, Holding("string"))

skaidb_pool_new(t) == boxed(t, Holding("pool"))

skaidb_pool_acquire(t, s) == object[s].kind = "pool" /\ boxed(t, Holding("client"))

\* The box is dropped; its connection goes to the pool.
skaidb_pool_release(t, s, c) == object[s].kind = "pool" /\ Usable(c) /\ Drop(t, c)

skaidb_pool_free(t, s) == object[s].kind = "pool" /\ Drop(t, s)

skaidb_pool_members(t, s) == object[s].kind = "pool" /\ boxed(t, Holding("members"))

FfiNext ==
    \E t \in Caller :
        \/ skaidb_last_error(t) \/ skaidb_connect(t) \/ value_box(t) \/ skaidb_pool_new(t)
        \/ \E s \in Slot :
              \/ skaidb_client_free(t, s) \/ ClientCall(t, s) \/ skaidb_client_endpoint_dup(t, s)
              \/ skaidb_string_free(t, s) \/ skaidb_execute(t, s) \/ skaidb_prepare(t, s)
              \/ skaidb_prepared_free(t, s) \/ skaidb_pipeline(t, s)
              \/ Inner(t, s) \/ skaidb_result_column_name(t, s) \/ skaidb_result_cell(t, s)
              \/ View(t, s) \/ skaidb_value_document_key(t, s) \/ Read(t, s) \/ Free(t, s)
              \/ open_stream(t, s) \/ skaidb_stream_column_name(t, s) \/ skaidb_stream_next(t, s)
              \/ skaidb_stream_next_set(t, s) \/ skaidb_stream_free(t, s) \/ skaidb_stream_poll(t, s)
              \/ ToDup(t, s) \/ skaidb_pool_acquire(t, s) \/ skaidb_pool_free(t, s) \/ skaidb_pool_members(t, s)
              \/ \E r \in Slot : \/ skaidb_execute_prepared(t, s, r) \/ skaidb_execute_batch(t, s, r)
                                 \/ skaidb_pool_release(t, s, r)

\* Every pointer the header still promises points into live memory: what one
\* thread borrowed survives the calls of another, names survive the move to the
\* next result set, and a failing call replaces only its own thread's message.
HandedOutLive == \A p \in promised : ~p.dangling
=============================================================================
