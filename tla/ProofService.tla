----------------------------- MODULE ProofService -----------------------------
(***************************************************************************)
(* A list that one of ListTools made, or that was there, is cut into shards*)
(* by create-merkle-tree, which writes a tree for each;                    *)
(* the API server loads all of them and serves each claimant a proof;      *)
(* generate-kv-proof writes the proofs of all trees into files for a key   *)
(* value store. The server and generate-kv-proof go through the trees in   *)
(* the order of their paths.                                               *)
(***************************************************************************)
EXTENDS ListTools

CONSTANTS
    Inputs,               \* what it all starts from: [list_tool, source]
    TestList,             \* get_test_list: wallets of the last tree
    TestAmount,           \* the ui amount each of them gets
    MaxNodesPerTree,      \* max_nodes_per_tree
    MaxEntriesPerFile     \* max_entries_per_file of generate-kv-proof

ASSUME ServiceAssumption ==
    /\ {MaxNodesPerTree, MaxEntriesPerFile} \subseteq Nat \ {0}
    /\ TestAmount \in Nat
    /\ TestList \in Seq(ToSet(TestList)) /\ TestList # <<>>
    /\ NoAmount \notin Nat

AreLines(entries) ==
    /\ entries \in Seq(ToSet(entries))
    /\ \A e \in ToSet(entries) : e.amount \in Nat /\ e.locked_amount \in Nat \cup {NoAmount}

\* A list that does not parse makes create-merkle-tree panic, and the list tools
\* write lines. A size of trees of 0 makes it run for ever.
ASSUME InputAssumption == \A input \in Inputs :
    /\ AreLines(ListOf(input.list_tool, input.source))
    /\ NodesPerTree(input.list_tool, MaxNodesPerTree) \in Nat \ {0}

FromSource == {"filter_list", "filter_list_fixed", "filter_and_merge", "extend_list"}
OfPreList == {"create_dummy_csv", "create_test_list"}

\* What the tools are run with: texts and keys that have their place in the orders,
\* and fresh keys for all the records asked for.
ASSUME ToolAssumption == \A input \in Inputs :
    LET tool == input.list_tool
    IN  /\ tool.name \in {"none"} \cup FromSource \cup OfPreList
        /\ tool.name \in FromSource =>
             /\ input.source \in Seq(ToSet(input.source))
             /\ \A e \in ToSet(input.source) :
                  /\ e.pubkey \in NotAKey \cup ToSet(KeyOrder)
                  /\ e.amount \in ToSet(TextOrder)
        /\ tool.name \in FromSource \cup OfPreList => tool.amount \in Nat
        /\ tool.name = "filter_and_merge" =>
             /\ tool.sub \in Seq(ToSet(tool.sub))
             /\ ToSet(tool.sub) \subseteq NotAKey \cup ToSet(KeyOrder)
        /\ tool.name = "extend_list" =>
             tool.amount \in ToSet(TextOrder) /\ tool.num_records \in 0 .. Len(FreshKeys)
        /\ tool.name = "create_dummy_csv" =>
             /\ tool.num_records \in Nat /\ tool.num_records >= Len(PreList)
             /\ tool.num_records - Len(PreList) <= Len(FreshKeys)

VARIABLES
    list_tool, source,         \* the tool that made the list, and from what
    csv,                       \* the list
    should_include_test_list,  \* an argument of create-merkle-tree
    csv_entries,               \* what is left of the list; entries of no tree yet
    files,                     \* the tree files, in the order they were written
    complete,                  \* create-merkle-tree is done
    loaded,                    \* trees the API server has read
    tree,                      \* RouterState::tree: claimant -> what it is served
    max_total_claim, max_num_nodes,          \* Distributors
    kv_read, kv_node,          \* generate-kv-proof: trees read, nodes of the next
    proofs,                    \* its map
    kv_files                   \* the files it wrote

vars == <<list_tool, source, csv, should_include_test_list, csv_entries, files, complete, loaded, tree,
          max_total_claim, max_num_nodes, kv_read, kv_node, proofs, kv_files>>
made == <<list_tool, source, csv, should_include_test_list>>
create_vars == <<made, csv_entries, files, complete>>
api_vars == <<loaded, tree, max_total_claim, max_num_nodes>>
kv_vars == <<kv_read, kv_node, proofs, kv_files>>

\* Lines of test wallets are trimmed from the list if they get a tree.
Trimmed(entries, include_test) ==
    IF include_test
    THEN Picked(entries, {k \in DOMAIN entries : entries[k].pubkey \notin ToSet(TestList)})
    ELSE entries

Init ==
    /\ \E input \in Inputs : list_tool = input.list_tool /\ source = input.source
    /\ csv = ListOf(list_tool, source)
    /\ should_include_test_list \in BOOLEAN
    /\ csv_entries = Trimmed(csv, should_include_test_list)
    /\ files = <<>>
    /\ complete = FALSE
    /\ loaded = 0
    /\ tree = <<>>
    /\ max_total_claim = 0
    /\ max_num_nodes = 0
    /\ kv_read = 0
    /\ kv_node = 1
    /\ proofs = <<>>
    /\ kv_files = <<>>

--------------------------------------------------------------------------------
(* process_create_merkle_tree *)

last_index == Min({NodesPerTree(list_tool, MaxNodesPerTree), Len(csv_entries)})
SubTree == SubSeq(csv_entries, 1, last_index)

RestSkipsOne == SubSeq(csv_entries, last_index + 2, Len(csv_entries))
Rest == SubSeq(csv_entries, last_index + 1, Len(csv_entries))

TestEntries ==
    [k \in DOMAIN TestList |->
        [pubkey |-> TestList[k], amount |-> TestAmount, locked_amount |-> 0]]

\* The tree of the entries, unless the tool panics.
WriteTree(entries) ==
    LET written == NewTree(TreeNodes(entries), Len(files))
    IN  /\ NoOverflow(TreeNodes(entries))
        /\ validate(written)
        /\ files' = Append(files, written)

CreateTree ==
    /\ csv_entries # <<>>
    /\ WriteTree(SubTree)
    /\ csv_entries' = Rest
    /\ UNCHANGED <<made, complete, api_vars, kv_vars>>

FinishTrees ==
    /\ ~complete
    /\ csv_entries = <<>>
    /\ IF should_include_test_list THEN WriteTree(TestEntries) ELSE UNCHANGED files
    /\ complete' = TRUE
    /\ UNCHANGED <<made, csv_entries, api_vars, kv_vars>>

--------------------------------------------------------------------------------
(* The order of the paths tree_0.json, tree_1.json, tree_10.json, ..., for *)
(* versions below 100: by the first digit, and no second digit comes first. *)
(* Of larger versions it is an order too, if not that of their paths.      *)

PathKey(version) ==
    IF version < 10 THEN version * 11 ELSE (version \div 10) * 11 + (version % 10) + 1

paths ==
    LET order == InOrder(DOMAIN files,
                         [k \in DOMAIN files |-> PathKey(files[k].airdrop_version)])
    IN  [r \in DOMAIN order |-> files[order[r]]]

PositionInPaths(t, position) == position - 1
\* get_merkle_distributor_pda: the version names the distributor.
DistributorOf(t, position) == t.airdrop_version

UserProof(t, position, n) ==
    [merkle_tree |-> DistributorOf(t, position), amount |-> n.amount,
     locked_amount |-> n.locked_amount, proof |-> n.proof]

\* What is inserted into a map replaces what it holds of the same key.
Extended(map, new) ==
    [c \in DOMAIN map \cup DOMAIN new |-> IF c \in DOMAIN new THEN new[c] ELSE map[c]]

--------------------------------------------------------------------------------
(* The API server: main, then get_user_info answers from the map *)

Names(nodes) == {n.claimant : n \in ToSet(nodes)}

ServedBy(t, position) ==
    [c \in Names(t.tree_nodes) |->
        UserProof(t, position, CHOOSE n \in ToSet(t.tree_nodes) : n.claimant = c)]

LoadTree ==
    /\ complete
    /\ loaded < Len(files)
    /\ LET t == paths[loaded + 1]
       IN  /\ max_total_claim + get_max_total_claim(t) <= U64Max
           /\ max_total_claim' = max_total_claim + get_max_total_claim(t)
           /\ max_num_nodes' = max_num_nodes + t.max_num_nodes
           /\ tree' = Extended(tree, ServedBy(t, loaded + 1))
    /\ loaded' = loaded + 1
    /\ UNCHANGED <<create_vars, kv_vars>>

get_user_info(claimant) == tree[claimant]

--------------------------------------------------------------------------------
(* process_generate_kv_proof *)

InsertProof ==
    /\ complete
    /\ kv_read < Len(files)
    /\ LET t == paths[kv_read + 1]
           n == t.tree_nodes[kv_node]
           inserted == Extended(proofs,
                           [c \in {n.claimant} |-> UserProof(t, kv_read + 1, n)])
           full == Cardinality(DOMAIN inserted) >= MaxEntriesPerFile
       IN  /\ proofs' = IF full THEN <<>> ELSE inserted
           /\ kv_files' = IF full THEN Append(kv_files, inserted) ELSE kv_files
           /\ IF kv_node < Len(t.tree_nodes)
              THEN kv_node' = kv_node + 1 /\ UNCHANGED kv_read
              ELSE kv_node' = 1 /\ kv_read' = kv_read + 1
    /\ UNCHANGED <<create_vars, api_vars>>

KvRead == complete /\ kv_read = Len(files)
NothingFlushed(map) == FALSE
MustFlush(map) == DOMAIN map # {}

FlushProofs ==
    /\ KvRead
    /\ MustFlush(proofs)
    /\ kv_files' = Append(kv_files, proofs)
    /\ proofs' = <<>>
    /\ UNCHANGED <<create_vars, api_vars, kv_read, kv_node>>

Next == CreateTree \/ FinishTrees \/ LoadTree \/ InsertProof \/ FlushProofs

Spec == Init /\ [][Next]_vars

--------------------------------------------------------------------------------
(* Properties *)

Claimants(entries) == {e.pubkey : e \in ToSet(entries)}
Everyone == Claimants(csv) \cup (IF should_include_test_list THEN ToSet(TestList) ELSE {})

\* A claimant of the program on chain: what a leaf of the tree entitles to.
LeafOf(claimant, p) ==
    TreeNodeHash([claimant |-> claimant, amount |-> p.amount,
                  locked_amount |-> p.locked_amount])

\* Creating a tree never panics on its own validation, whatever lines a
\* claimant has in a shard.
NeverRejected == csv_entries # <<>> /\ NoOverflow(TreeNodes(SubTree)) =>
    validate(NewTree(TreeNodes(SubTree), Len(files)))

\* The trees hold exactly what the list gives each claimant, each line rounded
\* down, however the lines fall into shards and repeat.
Fields == {"amount", "locked_amount"}
TotalOf(nodes, claimant, field) == TotalAt(nodes, Of(nodes, claimant), field)

Due(claimant, field) ==
    IF should_include_test_list /\ Contains(TestList, claimant)
    THEN TotalOf(TreeNodes(TestEntries), claimant, field)
    ELSE TotalOf(TreeNodes(csv), claimant, field)

InTrees(claimant, field) ==
    SumFunction([k \in DOMAIN files |-> TotalOf(files[k].tree_nodes, claimant, field)])

NothingLost == complete => \A c \in Everyone, field \in Fields :
    InTrees(c, field) = Due(c, field)

\* Nobody gets more in the trees than the list says, to the last fraction.
Listed(claimant, field) ==
    LET entries == Trimmed(csv, should_include_test_list)
    IN  SumFunction([k \in DOMAIN entries |->
            IF entries[k].pubkey # claimant \/ entries[k][field] = NoAmount
            THEN 0 ELSE entries[k][field]])

NeverMoreThanListed ==
    \A c \in Claimants(csv) \ ToSet(TestList), field \in Fields :
        InTrees(c, field) * UiUnit <= Listed(c, field)

\* What the server answers is accepted by the distributor it names: the proof
\* leads from the claimant's leaf to the root of the tree with that version.
ServedProofsVerify == \A c \in DOMAIN tree :
    LET p == get_user_info(c)
    IN  verify(p.proof, files[p.merkle_tree + 1].merkle_root, LeafOf(c, p))

\* Once all trees are loaded everybody named in the list is served, and the
\* totals of the answer to /distributors are what the trees entitle to.
AllLoaded == complete /\ loaded = Len(files)
EveryoneServed == AllLoaded =>
    /\ DOMAIN tree = Everyone
    /\ max_num_nodes >= Cardinality(Everyone)
    /\ max_total_claim = SumFunction([k \in DOMAIN files |-> get_max_total_claim(files[k])])

Offered(c) ==
    LET listed == {e.amount : e \in {e \in ToSet(source) : e.pubkey = c}}
        Adds(keys) == IF Contains(keys, c) THEN {list_tool.amount} ELSE {}
        Each(amount) == {amount : a \in listed}
    IN  CASE list_tool.name = "filter_list" -> Each(list_tool.amount)
          [] list_tool.name = "filter_list_fixed" -> listed
          [] list_tool.name = "filter_and_merge" ->
               Each(MergedAmount) \cup Adds(list_tool.sub) \cup Adds(PreList)
          [] list_tool.name = "extend_list" -> listed \cup Adds(PreList)
          [] OTHER -> Adds(PreList) \cup Adds(FreshKeys)

\* What the tools are there for, from the list they read to what is served:
\* every key that parses is served, and the tools that drop keys leave it one of
\* the amounts offered for it, in one tree. extend-list drops only what is the
\* same in key and amount and lets every other line count, and the one for each
\* key it makes is added to that, also if an earlier run has made the same key
\* (process_*_list.rs).
ToolsKeepEveryone ==
    AllLoaded /\ list_tool.name # "none" /\ ~should_include_test_list =>
        /\ list_tool.name \in FromSource =>
             \A e \in ToSet(source) : e.pubkey \in DOMAIN tree <=> e.pubkey \notin NotAKey
        /\ \A c \in DOMAIN tree :
             IF list_tool.name = "extend_list"
             THEN InTrees(c, "amount") =
                    SumFunction([a \in Offered(c) |-> ui_amount_to_token_amount(a)])
                      + (IF c \in ToSet(SubSeq(FreshKeys, 1, list_tool.num_records))
                         THEN ui_amount_to_token_amount(list_tool.amount) ELSE 0)
             ELSE /\ InTrees(c, "amount") = get_user_info(c).amount
                  /\ \E a \in Offered(c) :
                       get_user_info(c).amount = ui_amount_to_token_amount(a)

\* A store filled with the files in their order gives the answers of the
\* server, which verify_kv_proof asserts of addresses drawn at random.
Latest(maps) ==
    [c \in UNION {DOMAIN map : map \in ToSet(maps)} |->
        maps[Max({k \in DOMAIN maps : c \in DOMAIN maps[k]})][c]]
Stored == Latest(kv_files)
StoreAgrees == AllLoaded /\ KvRead /\ ~MustFlush(proofs) => Stored = tree

\* The shards divide the set of addresses, so the one proof that the server has
\* of a claimant stands for all that is due (README: "we break the large set of
\* addresses to smaller merkle trees").
OneTreeEach == \A s, t \in DOMAIN files : s # t =>
    Names(files[s].tree_nodes) \cap Names(files[t].tree_nodes) = {}

--------------------------------------------------------------------------------
(* The inductive invariant of ProofServiceProofs *)

AreNodes(nodes) ==
    /\ nodes \in Seq(ToSet(nodes))
    /\ \A n \in ToSet(nodes) : n.amount \in Nat /\ n.locked_amount \in Nat

\* A tree that passed its validation.
IsTree(t) ==
    LET nodes == t.tree_nodes
    IN  /\ AreNodes(nodes) /\ nodes # <<>>
        /\ IsInjective([k \in DOMAIN nodes |-> nodes[k].claimant])
        /\ t.max_num_nodes = Len(nodes)
        /\ get_max_total_claim(t) \in Nat
        /\ \A n \in ToSet(nodes) : verify(n.proof, t.merkle_root, TreeNodeHash(n))

TreesInv ==
    /\ files \in Seq(ToSet(files))
    /\ \A k \in DOMAIN files : IsTree(files[k]) /\ files[k].airdrop_version = k - 1

CreateInv ==
    /\ AreLines(csv) /\ AreLines(csv_entries)
    /\ NodesPerTree(list_tool, MaxNodesPerTree) \in Nat \ {0}
    /\ should_include_test_list \in BOOLEAN
    /\ complete \in BOOLEAN
    /\ complete => csv_entries = <<>>

\* What is in the trees and what is left of the list are the list, with the test
\* wallets once it is complete: by claimants, and by what each of them gets.
NamesInv ==
    (UNION {Names(files[k].tree_nodes) : k \in DOMAIN files})
        \cup Claimants(csv_entries)
      = Claimants(Trimmed(csv, should_include_test_list))
          \cup (IF complete /\ should_include_test_list THEN ToSet(TestList) ELSE {})

AmountsInv == \A c \in Everyone, field \in Fields :
    InTrees(c, field) + TotalOf(TreeNodes(csv_entries), c, field)
      = TotalOf(TreeNodes(Trimmed(csv, should_include_test_list)), c, field)
          + (IF complete /\ should_include_test_list
             THEN TotalOf(TreeNodes(TestEntries), c, field) ELSE 0)

\* A reader that has done r trees, and the next one up to its node i, has the
\* answers of the last tree that names each claimant.
IsMap(map) == map = [c \in DOMAIN map |-> map[c]]
Done(q, j, r, i) == q <= r \/ (q = r + 1 /\ j < i)
Answers(trees, map, r, i) ==
    /\ IsMap(map)
    /\ \A q \in DOMAIN trees : \A j \in DOMAIN trees[q].tree_nodes :
         Done(q, j, r, i) => trees[q].tree_nodes[j].claimant \in DOMAIN map
    /\ \A c \in DOMAIN map : \E q \in DOMAIN trees : \E j \in DOMAIN trees[q].tree_nodes :
         /\ Done(q, j, r, i)
         /\ trees[q].tree_nodes[j].claimant = c
         /\ map[c] = UserProof(trees[q], q, trees[q].tree_nodes[j])
         /\ \A p \in DOMAIN trees : \A k \in DOMAIN trees[p].tree_nodes :
              Done(p, k, r, i) /\ trees[p].tree_nodes[k].claimant = c => p <= q

ServerInv ==
    /\ loaded \in 0 .. Len(files)
    /\ ~complete => loaded = 0
    /\ Answers(paths, tree, loaded, 1)
    /\ IsFiniteSet(DOMAIN tree)
    /\ max_num_nodes \in Nat
    /\ max_num_nodes >= Cardinality(DOMAIN tree)
    /\ max_total_claim = SumFunction([r \in 1 .. loaded |-> get_max_total_claim(paths[r])])

KvInv ==
    /\ kv_files \in Seq(ToSet(kv_files))
    /\ kv_read \in 0 .. Len(files)
    /\ kv_read < Len(files) => kv_node \in DOMAIN paths[kv_read + 1].tree_nodes
    /\ kv_read = Len(files) => kv_node = 1
    /\ ~complete => kv_read = 0 /\ kv_node = 1
    /\ Answers(paths, Extended(Stored, proofs), kv_read, kv_node)

\* Of a list with one line per key no tree names whom another names, or the rest.
Once(entries) == IsInjective([k \in DOMAIN entries |-> entries[k].pubkey])
ListInv == \E input \in Inputs :
    /\ list_tool = input.list_tool /\ source = input.source
    /\ csv = ListOf(list_tool, source)
ShardsInv == Once(csv) /\ ~should_include_test_list =>
    /\ OneTreeEach
    /\ Once(csv_entries)
    /\ \A k \in DOMAIN files : Names(files[k].tree_nodes) \cap Claimants(csv_entries) = {}

Inv == TreesInv /\ CreateInv /\ NamesInv /\ AmountsInv /\ ServerInv /\ KvInv
================================================================================
