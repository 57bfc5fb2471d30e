---------------------------- MODULE FundedIndex ----------------------------
(***************************************************************************)
(* The funded index: how src/funded builds it from funded.tsv (builder.go, *)
(* load.go, sets.go), stores it (cache.go, mmap.go) and searches it with   *)
(* the keys that src/search/workers.go derives for a wallet.               *)
(*                                                                         *)
(* A hash is a number, compared as bytes.Compare compares hashes.  0 is    *)
(* the all-zero hash, what a key has that was not derived; no address has  *)
(* it.  A bloom filter is the set of keys it lets pass, which holds at     *)
(* least the keys added to it; {} stands for nil, which the code has       *)
(* exactly for an empty bucket.  A cache file is a sequence of entries:    *)
(* the header, then one entry per hash, balance and filter.                *)
(***************************************************************************)
EXTENDS Integers, FiniteSets, Sequences, SequencesExt

CONSTANTS
    Hashes,          \* hashes of addresses
    Balances,        \* balances in funded.tsv
    MinBalance,      \* --min-balance
    FalsePositives,  \* sets of keys a filter may let pass without reason
    Wallets,         \* the wallets looked up
    MaxLines         \* bound: lines of funded.tsv

ASSUME IndexAssumption ==
    /\ Hashes \subseteq Nat \ {0} /\ IsFiniteSet(Hashes)
    /\ Balances \subseteq Nat
    /\ MinBalance \in Nat
    /\ FalsePositives \subseteq SUBSET (Hashes \cup {0})
    /\ Wallets \subseteq
         [compressed : Nat, uncompressed : Nat, p2sh : Nat, taproot : Nat]
    /\ MaxLines \in Nat

VARIABLES
    phase,    \* "parse" or "ready"
    listed,   \* lines of funded.tsv read so far
    builder,  \* the maps of Builder
    sets      \* Sets

indexVars == <<phase, listed, builder, sets>>

Kinds == {"legacy", "p2sh", "segwit", "taproot"}

\* An address that DecodeFundedAddressForLoad rejects is of kind "other".
Lines == [kind : Kinds \cup {"other"}, hash : Hashes, balance : Balances]

Formats == {"legacyCompressed", "legacyUncompressed", "segwit", "p2sh", "taproot"}
Masks == SUBSET Formats \ {{}}

\* The bucket a format is looked up in, and the key it is looked up with.
BucketOf == [legacyCompressed |-> "legacy", legacyUncompressed |-> "legacy",
             segwit |-> "segwit", p2sh |-> "p2sh", taproot |-> "taproot"]
KeyOf == [legacyCompressed |-> "compressed", legacyUncompressed |-> "uncompressed",
          segwit |-> "compressed", p2sh |-> "p2sh", taproot |-> "taproot"]

EmptyBucket == [hashes |-> <<>>, balances |-> <<>>, bloom |-> {}]

IndexInit ==
    /\ phase = "parse"
    /\ listed = {}
    /\ builder = [k \in Kinds |-> <<>>]
    /\ sets = [k \in Kinds |-> EmptyBucket]
-----------------------------------------------------------------------------
(* Parsing and building.                                                   *)

\* The largest balance listed for an address counts.
Merge(m, hash, balance) ==
    IF hash \notin DOMAIN m \/ balance > m[hash]
    THEN [h \in DOMAIN m \cup {hash} |-> IF h = hash THEN balance ELSE m[h]]
    ELSE m

Add(line) ==
    /\ phase = "parse"
    /\ Cardinality(listed) < MaxLines
    /\ listed' = listed \cup {line}
    /\ builder' = IF line.balance < MinBalance \/ line.kind = "other" THEN builder
                  ELSE [builder EXCEPT ![line.kind] = Merge(@, line.hash, line.balance)]
    /\ UNCHANGED <<phase, sets>>

Sorted(hashes) ==
    CHOOSE s \in Bijection(1..Cardinality(hashes), hashes) :
        \A i, j \in DOMAIN s : i < j => s[i] < s[j]

\* A bug: the hashes are not sorted before their balances are laid out.
BuildUnsorted(m) ==
    LET hashes == SetToSortSeq(DOMAIN m, >)
    IN  [hashes |-> hashes, balances |-> [i \in DOMAIN hashes |-> m[hashes[i]]],
         bloom |-> {}]

BuildBucket(m) ==
    LET hashes == Sorted(DOMAIN m)
    IN  [hashes |-> hashes, balances |-> [i \in DOMAIN hashes |-> m[hashes[i]]],
         bloom |-> {}]

\* Sets.Sort sorts the hashes and leaves the balances where they are.
SortBucket(bucket) == [bucket EXCEPT !.hashes = Sorted(ToSet(@))]

AddBloom(bucket, passes) ==
    [bucket EXCEPT !.bloom = IF bucket.hashes = <<>> THEN {}
                             ELSE ToSet(bucket.hashes) \cup passes]

\* Load without a usable cache: Build, Sort, EnsureBlooms.
Build(passes) ==
    /\ phase = "parse"
    /\ phase' = "ready"
    /\ sets' = [k \in Kinds |-> AddBloom(SortBucket(BuildBucket(builder[k])), passes)]
    /\ UNCHANGED <<listed, builder>>

IndexNext == (\E line \in Lines : Add(line)) \/ (\E passes \in FalsePositives : Build(passes))

IndexSpec == IndexInit /\ [][IndexNext]_indexVars
-----------------------------------------------------------------------------
(* The cache file: WriteCache and DecodeCache.                             *)

Regions == <<"legacy", "p2sh", "segwit", "taproot">>

\* A bug: the reader takes two regions of hashes in the wrong order.
ReadOrderSwapped == <<"legacy", "segwit", "p2sh", "taproot">>

\* The order in which DecodeCache reads the regions.
ReadOrder == Regions

Encode(s) ==
    LET Region(part) == FlattenSeq([i \in 1..4 |-> s[Regions[i]][part]])
    IN  <<[i \in 1..4 |-> Len(s[Regions[i]].hashes)]>>
          \o Region("hashes") \o Region("balances")
          \o [i \in 1..4 |-> s[Regions[i]].bloom]

Counts(file) == file[1]

\* Entries of the regions before region i.
Before(counts, i) ==
    LET sum[j \in 0..4] == IF j = 0 THEN 0 ELSE sum[j - 1] + counts[j]
    IN  sum[i - 1]

\* A bug: the last filter is missed when it is checked for.
TooShortByOne(file) ==
    Len(file) = 0 \/ Len(file) < 1 + 2 * Before(Counts(file), 5) + 3

\* One of the truncation errors: a region or a filter ends past the file.
TooShort(file) ==
    Len(file) = 0 \/ Len(file) < 1 + 2 * Before(Counts(file), 5) + 4

Decode(file) ==
    LET counts == Counts(file)
        total == Before(counts, 5)
        Slice(base, i) == SubSeq(file, base + Before(counts, i) + 1,
                                 base + Before(counts, i) + counts[i])
        At(k) == CHOOSE i \in 1..4 : ReadOrder[i] = k
    IN  [k \in Kinds |-> [hashes |-> Slice(1, At(k)),
                          balances |-> Slice(1 + total, At(k)),
                          bloom |-> file[1 + 2 * total + At(k)]]]
-----------------------------------------------------------------------------
(* Looking a wallet up.                                                    *)

\* sort.Search for the first hash that is not below key, counted from 0.
SearchIndex(hashes, key) ==
    LET n == Len(hashes)
        bisect[r \in (0..n) \X (0..n)] ==
            LET i == r[1]
                j == r[2]
                h == (i + j) \div 2
            IN  IF i >= j THEN i
                ELSE IF hashes[h + 1] < key THEN bisect[<<h + 1, j>>] ELSE bisect[<<i, h>>]
    IN  bisect[<<0, n>>]

InFunded(hashes, key) ==
    LET i == SearchIndex(hashes, key) IN i < Len(hashes) /\ hashes[i + 1] = key

BalanceAt(bucket, key) ==
    IF InFunded(bucket.hashes, key)
    THEN bucket.balances[SearchIndex(bucket.hashes, key) + 1] ELSE 0

MaybeFunded(bucket, key) ==
    (bucket.bloom # {} => key \in bucket.bloom) /\ InFunded(bucket.hashes, key)

\* The filters say that the wallet may have one of the 20-byte hashes.
BloomMaybe(mask, keys) ==
    \E f \in mask \ {"taproot"} : keys[KeyOf[f]] \in sets[BucketOf[f]].bloom

ShouldDeriveTaproot(mask, keys) ==
    /\ "taproot" \in mask /\ sets["taproot"].hashes # <<>>
    /\ mask = {"taproot"} \/ BloomMaybe(mask, keys)

\* A bug: the compressed key is only derived for the formats that are named
\* after it, and p2sh is not.
DerivedWithoutCompressed(w, mask) ==
    LET keys == [compressed |-> IF mask \cap {"legacyCompressed", "segwit"} # {}
                                THEN w.compressed ELSE 0,
                 p2sh |-> IF /\ mask \cap {"legacyCompressed", "segwit"} # {}
                             /\ "p2sh" \in mask /\ sets["p2sh"].hashes # <<>>
                          THEN w.p2sh ELSE 0,
                 uncompressed |-> IF "legacyUncompressed" \in mask
                                     /\ sets["legacy"].hashes # <<>>
                                  THEN w.uncompressed ELSE 0,
                 taproot |-> 0]
    IN  [keys EXCEPT !.taproot = IF ShouldDeriveTaproot(mask, keys) THEN w.taproot ELSE 0]

\* deriveKeysStaged: what is not derived stays zero.
Derived(w, mask) ==
    LET keys == [compressed |-> IF mask \cap {"legacyCompressed", "segwit", "p2sh"} # {}
                                THEN w.compressed ELSE 0,
                 p2sh |-> IF "p2sh" \in mask /\ sets["p2sh"].hashes # <<>>
                          THEN w.p2sh ELSE 0,
                 uncompressed |-> IF "legacyUncompressed" \in mask
                                     /\ sets["legacy"].hashes # <<>>
                                  THEN w.uncompressed ELSE 0,
                 taproot |-> 0]
    IN  [keys EXCEPT !.taproot = IF ShouldDeriveTaproot(mask, keys) THEN w.taproot ELSE 0]

\* Sets.Match: the first selected format, in this order, whose key is funded.
MatchOrder == <<"legacyCompressed", "legacyUncompressed", "segwit", "p2sh", "taproot">>

Hits(mask, keys) ==
    {f \in mask : MaybeFunded(sets[BucketOf[f]], keys[KeyOf[f]])}

Matched(mask, keys) == Hits(mask, keys) # {}

Match(mask, keys) ==
    MatchOrder[CHOOSE i \in 1..5 :
                 /\ MatchOrder[i] \in Hits(mask, keys)
                 /\ \A j \in 1..(i - 1) : MatchOrder[j] \notin Hits(mask, keys)]

BalanceForMatch(f, keys) == BalanceAt(sets[BucketOf[f]], keys[KeyOf[f]])
-----------------------------------------------------------------------------
(* Properties.                                                             *)

\* The lines of funded.tsv that fund wallet w in format f.
Funding(w, f) ==
    {line \in listed : /\ line.kind = BucketOf[f]
                       /\ line.hash = w[KeyOf[f]]
                       /\ line.balance >= MinBalance}

\* A hit is real: the wallet's own address of the reported format is listed
\* with at least the minimum balance, and the balance reported is the largest
\* one listed for it, although keys may be left underived and hashes and
\* balances are sorted apart (Sets.Match, BalanceForMatch, Builder, Sets.Sort).
HitsAreReal ==
    phase = "ready" =>
        \A w \in Wallets, mask \in Masks :
            LET keys == Derived(w, mask)
                f == Match(mask, keys)
            IN  Matched(mask, keys) =>
                    \E line \in Funding(w, f) :
                        /\ line.balance = BalanceForMatch(f, keys)
                        /\ \A other \in Funding(w, f) : other.balance <= line.balance

\* No funded wallet is missed in the formats with a 20-byte hash, whatever the
\* filters let pass and whatever is left underived.  One funded in its taproot
\* address is found by a search for taproot alone, and by another search when
\* a filter lets one of the wallet's own keys pass, although the filters are
\* asked before every key is derived (deriveKeysStaged, Sets.Match).
NoFundedWalletMissed ==
    phase = "ready" =>
        \A w \in Wallets, mask \in Masks :
            (\E f \in mask :
                /\ Funding(w, f) # {}
                /\ f = "taproot" => mask = {"taproot"} \/ BloomMaybe(mask, w))
            => Matched(mask, Derived(w, mask))

\* What plans/low/09 promises of lazy derivation: "a hit on any format must
\* still be found".
AnyFormatIsFound ==
    phase = "ready" =>
        \A w \in Wallets, mask \in Masks :
            (\E f \in mask : Funding(w, f) # {}) => Matched(mask, Derived(w, mask))

\* The reader's offsets meet the writer's: what WriteCache stores, DecodeCache
\* accepts and gives back, hash by hash with its balance and filter.
CacheRoundTrip ==
    phase = "ready" =>
        /\ ~TooShort(Encode(sets))
        /\ Decode(Encode(sets)) = sets

\* A cache file that was cut off anywhere is refused (DecodeCache).
TruncationIsNoticed ==
    phase = "ready" =>
        \A n \in 0..(Len(Encode(sets)) - 1) : TooShort(SubSeq(Encode(sets), 1, n))
=============================================================================
