------------------------------- MODULE Ledger --------------------------------
(***************************************************************************)
(* The ledger of the disc blocks the machine has read (scd_ledger_note of  *)
(* scd_cd.c): a bounded list of ranges, of which only the newest are       *)
(* looked at for a range that holds the block or that it extends.          *)
(* Dynamically loaded code is bound to a disc image only over blocks that  *)
(* are in it (scd_dyn_delivered), and not at all after an overflow.        *)
(***************************************************************************)
EXTENDS Integers, Sequences, FiniteSets

CONSTANTS
    Blocks,    \* the blocks of the disc
    LedgerMax, \* SCD_LEDGER_MAX
    Lookback   \* the ranges looked at: 5 in the code

ASSUME BlocksAssumption    == Blocks \subseteq Nat
ASSUME LedgerMaxAssumption == LedgerMax \in Nat /\ Lookback \in Nat \ {0}

VARIABLES
    delivered, \* m->delivered: ranges of count blocks from first_lba
    overflow,  \* m->delivered_overflow
    read       \* history: the blocks that were read

ledger == <<delivered, overflow, read>>

BlockRange == [first_lba : Nat, count : Nat \ {0}]

LedgerInit == delivered = <<>> /\ overflow = FALSE /\ read = {}

Within(lba, r) == lba >= r.first_lba /\ lba - r.first_lba < r.count

\* Mutant: the block after the next one extends a range.
Extends_OffByOne(lba, r) == lba = r.first_lba + r.count + 1

Extends(lba, r) == lba = r.first_lba + r.count

\* The ranges that are looked at, and the newest of them that has a use for lba.
Recent == {i \in 1..Len(delivered) : i > Len(delivered) - Lookback}

Hits(lba) == {i \in Recent : Within(lba, delivered[i]) \/ Extends(lba, delivered[i])}

\* Mutant: a block that no recent range takes is dropped when the list is full.
Append_Silent(lba) ==
    IF Len(delivered) >= LedgerMax
    THEN UNCHANGED <<delivered, overflow>>
    ELSE /\ delivered' = Append(delivered, [first_lba |-> lba, count |-> 1])
         /\ UNCHANGED overflow

AppendRange(lba) ==
    IF Len(delivered) >= LedgerMax
    THEN overflow' = TRUE /\ UNCHANGED delivered
    ELSE /\ delivered' = Append(delivered, [first_lba |-> lba, count |-> 1])
         /\ UNCHANGED overflow

\* scd_ledger_note, called by scd_cdd_read_data for every block that was read.
Note(lba) ==
    /\ read' = read \cup {lba}
    /\ \/ \E i \in Hits(lba) :
            /\ \A j \in Hits(lba) : j <= i
            /\ delivered' = IF Within(lba, delivered[i]) THEN delivered
                            ELSE [delivered EXCEPT ![i].count = @ + 1]
            /\ UNCHANGED overflow
       \/ Hits(lba) = {} /\ AppendRange(lba)

LedgerNext == \E lba \in Blocks : Note(lba)

LedgerSpec == LedgerInit /\ [][LedgerNext]_ledger

------------------------------------------------------------------------------

\* The state has its types; the list does not outgrow its array.
LedgerTypeOK ==
    /\ delivered \in Seq(BlockRange) /\ Len(delivered) <= LedgerMax
    /\ overflow \in BOOLEAN
    /\ read \subseteq Nat

\* scd_dyn_delivered.
Delivered(lba) == \E i \in 1..Len(delivered) : Within(lba, delivered[i])

\* Code is never bound to a block that was not read: no range reaches over a block
\* between two that were, by whatever order of reads the ranges grew.
OnlyWhatWasRead == \A i \in 1..Len(delivered) : \A k \in 0..(delivered[i].count - 1) :
                       delivered[i].first_lba + k \in read

\* A block that was read is in the ledger, or the overflow is on record: with five
\* ranges looked at and a full list, nothing disappears silently.
NothingLost == ~overflow => \A lba \in read : Delivered(lba)
==============================================================================
