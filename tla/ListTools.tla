-------------------------------- MODULE ListTools --------------------------------
(***************************************************************************)
(* The commands that make or clean the list an airdrop starts from:        *)
(* create-dummy-csv, create-test-list, extend-list, filter-list,           *)
(* filter-list-fixed and filter-and-merge-list. Each reads files, sorts,   *)
(* drops duplicates and writes one file of two columns. A tool is a record *)
(* of its name and its arguments.                                          *)
(***************************************************************************)
EXTENDS AirdropMerkleTree

CONSTANTS
    NotAKey,    \* what stands in a column of keys and does not parse as one
    KeyOrder,   \* the keys by their bytes
    TextOrder,  \* the amounts that lists hold, by the text they are written as
    PreList,    \* get_pre_list
    FreshKeys,  \* the keys that Pubkey::new_unique makes, one after the other, which
                \* are the same ones whenever a tool runs
    MergedAmount  \* 200, what filter-and-merge-list gives the keys of its first list

\* The keys of the pre list are keys, and none is in it twice; a tool never makes
\* one of them, nor the same key twice.
ASSUME ListAssumption ==
    /\ KeyOrder \in Seq(ToSet(KeyOrder)) /\ TextOrder \in Seq(ToSet(TextOrder))
    /\ PreList \in Seq(ToSet(PreList)) /\ PreList # <<>> /\ IsInjective(PreList)
    /\ ToSet(PreList) \subseteq ToSet(KeyOrder) \ NotAKey
    /\ FreshKeys \in Seq(ToSet(FreshKeys)) /\ IsInjective(FreshKeys)
    /\ ToSet(FreshKeys) \cap (NotAKey \cup ToSet(PreList)) = {}
    /\ ToSet(TextOrder) \cup {MergedAmount} \subseteq Nat

\* Lines before they are written: no tool looks at the third column.
Entry(key, amount) == [pubkey |-> key, amount |-> amount]
Parsed(entries) ==
    Picked(entries, {k \in DOMAIN entries : entries[k].pubkey \notin NotAKey})
WithAmount(entries, amount) == [k \in DOMAIN entries |-> Entry(entries[k].pubkey, amount)]
TwoColumns(entries) ==
    [k \in DOMAIN entries |-> Entry(entries[k].pubkey, entries[k].amount)]
EntriesOf(keys, amount) == [k \in DOMAIN keys |-> Entry(keys[k], amount)]
Written(entries) == [k \in DOMAIN entries |->
    [pubkey |-> entries[k].pubkey, amount |-> entries[k].amount,
     locked_amount |-> NoAmount]]

\* Amounts are sorted as numbers, or by their texts where the tool keeps these.
Rank(order, x) == CHOOSE i \in DOMAIN order : order[i] = x
AsNumbers == [a \in Nat |-> a]
AsTexts == [a \in ToSet(TextOrder) |-> Rank(TextOrder, a)]

\* sort_unstable of pairs: by the key, then by the amount. Each place is the
\* number of entries before it; of equal ones the first stays first.
Before(e, f, amounts) ==
    \/ Rank(KeyOrder, e.pubkey) < Rank(KeyOrder, f.pubkey)
    \/ e.pubkey = f.pubkey /\ amounts[e.amount] < amounts[f.amount]
Ahead(entries, amounts, k) == {j \in DOMAIN entries :
    \/ Before(entries[j], entries[k], amounts)
    \/ entries[j] = entries[k] /\ j < k}
Places(entries, amounts) ==
    [k \in DOMAIN entries |-> Cardinality(Ahead(entries, amounts, k))]
sort_unstable(entries, amounts) ==
    LET order == InOrder(DOMAIN entries, Places(entries, amounts))
    IN  [r \in DOMAIN order |-> entries[order[r]]]

SameEntry(e, f) == e = f
SameKey(e, f) == e.pubkey = f.pubkey

\* dedup drops an element that repeats the one before it; dedup_by compares keys.
dedup(entries) ==
    Picked(entries, {k \in DOMAIN entries : k = 1 \/ ~SameEntry(entries[k - 1], entries[k])})
dedup_by(entries) ==
    Picked(entries, {k \in DOMAIN entries : k = 1 \/ ~SameKey(entries[k - 1], entries[k])})

\* The entries are spread over the fresh ones, num_node apart.
Spread(num_records, fresh, entries) ==
    LET num_node == num_records \div Len(entries)
        full_list[i \in 0 .. Len(entries)] ==
            IF i = 0 THEN fresh
            ELSE InsertAt(full_list[i - 1], num_node * (i - 1) + 1, entries[i])
    IN  full_list[Len(entries)]

--------------------------------------------------------------------------------
(* The tools *)

filter_list(tool, source) ==
    dedup_by(sort_unstable(WithAmount(Parsed(source), tool.amount), AsNumbers))

filter_list_fixed(source) ==
    dedup_by(sort_unstable(TwoColumns(Parsed(source)), AsTexts))

\* The keys of the sub list and of the pre list get what the option says.
filter_and_merge(tool, source) ==
    LET merged == WithAmount(Parsed(source), MergedAmount)
                    \o Parsed(EntriesOf(tool.sub, tool.amount))
                    \o EntriesOf(PreList, tool.amount)
    IN  dedup_by(sort_unstable(merged, AsNumbers))

extend_list(tool, source) ==
    LET all == TwoColumns(Parsed(source)) \o EntriesOf(PreList, tool.amount)
        fresh == EntriesOf(SubSeq(FreshKeys, 1, tool.num_records), tool.amount)
    IN  Spread(tool.num_records, fresh, dedup(sort_unstable(all, AsTexts)))

\* With fewer records than keys in the pre list the count wraps around and the
\* tool makes keys until its memory ends: such arguments are left out.
create_dummy_csv(tool) ==
    LET num_fresh == tool.num_records - Len(PreList)
        fresh == EntriesOf(SubSeq(FreshKeys, 1, num_fresh), tool.amount)
    IN  Spread(tool.num_records, fresh, EntriesOf(PreList, tool.amount))

\* The list that create-merkle-tree then reads.
ListOf(tool, source) ==
    CASE tool.name = "none" -> source
      [] tool.name = "filter_list" -> Written(filter_list(tool, source))
      [] tool.name = "filter_list_fixed" -> Written(filter_list_fixed(source))
      [] tool.name = "filter_and_merge" -> Written(filter_and_merge(tool, source))
      [] tool.name = "extend_list" -> Written(extend_list(tool, source))
      [] tool.name = "create_dummy_csv" -> Written(create_dummy_csv(tool))
      [] tool.name = "create_test_list" -> Written(EntriesOf(PreList, tool.amount))

\* create-test-list runs create-merkle-tree itself, and gives it the amount as
\* the number of nodes of a tree.
NodesPerTree(tool, max_nodes_per_tree) ==
    IF tool.name = "create_test_list" THEN tool.amount \div UiUnit ELSE max_nodes_per_tree
================================================================================
