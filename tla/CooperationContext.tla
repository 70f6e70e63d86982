------------------------- MODULE CooperationContext -------------------------
(***************************************************************************)
(* The context that travels with a cooperation lineage: a map from keys to *)
(* elements which is read from a row as JSON and deserialized key by key,  *)
(* on first use.  A CooperationContextMap therefore holds two maps,        *)
(* serializedMap and deserializedMap, and a key may be in both.            *)
(*                                                                         *)
(* A row is a function from the keys it holds to their values; the value   *)
(* of a key is the same whether it is JSON or an object.                   *)
(***************************************************************************)
EXTENDS Naturals

CONSTANTS
    Key,           \* names of context elements
    DeadlineKeys,  \* those of cancellation tokens: their value is an instant
    FinallyKey     \* TryFinallyKey: its value is the set of the steps listed

ASSUME KeyAssumption ==
    /\ DeadlineKeys \subseteq Key
    /\ FinallyKey \in Key \ DeadlineKeys

\* f with g's entries added or put in place of f's.
Overwritten(f, g) ==
    [k \in DOMAIN f \cup DOMAIN g |-> IF k \in DOMAIN g THEN g[k] ELSE f[k]]

Without(f, k) == [j \in DOMAIN f \ {k} |-> f[j]]

NoEntries == [k \in {} |-> 0]

\* A row with at most these keys, each with a value of its own kind.
IsRow(f) ==
    /\ DOMAIN f \subseteq Key
    /\ \A k \in DOMAIN f \cap DeadlineKeys : f[k] \in Nat

-----------------------------------------------------------------------------
Context(serialized, deserialized) == [ser |-> serialized, des |-> deserialized]

EmptyContext == Context(NoEntries, NoEntries)

\* contextFromParsedJson: nothing is deserialized yet.  A NULL column reads as
\* the empty context.
Read(row) == Context(row, NoEntries)

\* An object built by user code: nothing is serialized.
Built(entries) == Context(NoEntries, entries)

Has(ctx, k) == k \in DOMAIN ctx.ser \cup DOMAIN ctx.des

Get(ctx, k) == IF k \in DOMAIN ctx.des THEN ctx.des[k] ELSE ctx.ser[k]

Minus(ctx, k) == Context(Without(ctx.ser, k), Without(ctx.des, k))

\* Mutant of Combined: the element added last wins, deadlines included.
CombinedLastWins(k, mine, theirs) ==
    IF k = FinallyKey THEN mine \cup theirs ELSE theirs

\* Element.plus of one element with another of its key: the earlier deadline,
\* both lists of finally blocks, otherwise the argument.
Combined(k, mine, theirs) ==
    IF k \in DeadlineKeys THEN IF mine <= theirs THEN mine ELSE theirs
    ELSE IF k = FinallyKey THEN mine \cup theirs
    ELSE theirs

\* plus of an Element: the key leaves both maps and what replaces it is an object.
PlusElement(ctx, k, v) ==
    LET value == IF Has(ctx, k) THEN Combined(k, Get(ctx, k), v) ELSE v
        rest  == Minus(ctx, k)
    IN  Context(rest.ser, Overwritten(rest.des, [j \in {k} |-> value]))

\* plus of a CooperationContextMap.  A key that either side has deserialized is
\* combined, in the deserialized map only; the serialized maps are merged as
\* they are, so the serialized value of such a key stays behind.
PlusMap(ctx, other) ==
    Context(Overwritten(ctx.ser, other.ser),
            [k \in DOMAIN ctx.des \cup DOMAIN other.des |->
                IF ~Has(ctx, k) THEN Get(other, k)
                ELSE IF ~Has(other, k) THEN Get(ctx, k)
                ELSE Combined(k, Get(ctx, k), Get(other, k))])

\* fold, and so writeContextJson: of a key in both maps, the serialized entry.
Written(ctx) == Overwritten(ctx.des, ctx.ser)
=============================================================================
