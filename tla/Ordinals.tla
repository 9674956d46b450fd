------------------------------ MODULE Ordinals ------------------------------
(***************************************************************************)
(* crates/ordinals: sats and their notations.  The real supply is beyond   *)
(* TLC's integers, so the first subsidy and the two intervals are          *)
(* parameters; the assumption states the relations between the real        *)
(* numbers that the code relies on.                                        *)
(*                                                                         *)
(* A string to parse is a record: its form (what FromStr looks for) and    *)
(* the numbers its parts parse to.  Numbers of type u32 wrap at            *)
(* 2^WordBits, as they do in a release build.                              *)
(***************************************************************************)
LOCAL INSTANCE Integers
LOCAL INSTANCE Sequences
LOCAL INSTANCE SequencesExt

CONSTANTS FIRST_SUBSIDY,            \* 50 * COIN_VALUE
          LAST_EXACT,               \* the last epoch with an undivided subsidy (9)
          FIRST_POST_SUBSIDY,       \* 33
          SUBSIDY_HALVING_INTERVAL, \* 210000
          DIFFCHANGE_INTERVAL,      \* 2016
          COIN_VALUE,
          WordBits

CYCLE_EPOCHS == 6
HALVING_INCREMENT == SUBSIDY_HALVING_INTERVAL % DIFFCHANGE_INTERVAL

ASSUME OrdinalsAssumption ==
  /\ CYCLE_EPOCHS * HALVING_INCREMENT = DIFFCHANGE_INTERVAL
  /\ FIRST_SUBSIDY % (2^LAST_EXACT) = 0
  /\ (FIRST_SUBSIDY \div 2^LAST_EXACT) % 2 = 1
  /\ FIRST_SUBSIDY \div 2^FIRST_POST_SUBSIDY = 0
  /\ FIRST_SUBSIDY \div 2^(FIRST_POST_SUBSIDY - 1) # 0

Word(n) == n % (2^WordBits)

EpochSubsidy(e) == IF e < FIRST_POST_SUBSIDY THEN FIRST_SUBSIDY \div 2^e ELSE 0

STARTING_SATS[e \in 0 .. FIRST_POST_SUBSIDY] ==
  IF e = 0 THEN 0
  ELSE STARTING_SATS[e - 1] + SUBSIDY_HALVING_INTERVAL * EpochSubsidy(e - 1)

SUPPLY == STARTING_SATS[FIRST_POST_SUBSIDY]
LAST == SUPPLY - 1

EpochStartingSat(e) == STARTING_SATS[IF e > FIRST_POST_SUBSIDY THEN FIRST_POST_SUBSIDY ELSE e]
EpochOfHeight(h) == h \div SUBSIDY_HALVING_INTERVAL
EpochOfSat(n) ==
  CHOOSE e \in 0 .. FIRST_POST_SUBSIDY :
    /\ STARTING_SATS[e] <= n
    /\ e < FIRST_POST_SUBSIDY => n < STARTING_SATS[e + 1]

HeightSubsidy(h) == EpochSubsidy(EpochOfHeight(h))
HeightStartingSat(h) ==
  EpochStartingSat(EpochOfHeight(h))
    + (h - EpochOfHeight(h) * SUBSIDY_HALVING_INTERVAL) * HeightSubsidy(h)

epoch_position(n) == n - EpochStartingSat(EpochOfSat(n))
SatHeight(n) == EpochOfSat(n) * SUBSIDY_HALVING_INTERVAL
                  + epoch_position(n) \div EpochSubsidy(EpochOfSat(n))
third(n) == epoch_position(n) % EpochSubsidy(EpochOfSat(n))
cycle(n) == EpochOfSat(n) \div CYCLE_EPOCHS
period(n) == SatHeight(n) \div DIFFCHANGE_INTERVAL
nineball(n) == FIRST_SUBSIDY * 9 <= n /\ n < FIRST_SUBSIDY * 10
coin(n) == n % COIN_VALUE = 0

RECURSIVE Reversed(_, _)
Reversed(n, acc) == IF n = 0 THEN acc ELSE Reversed(n \div 10, acc * 10 + (n % 10))
palindrome(n) == Reversed(n, 0) = n

\* The fast path: up to LAST_EXACT every subsidy is a multiple of that epoch's.
common(n) ==
  \/ /\ n < EpochStartingSat(LAST_EXACT + 1)
     /\ n % EpochSubsidy(LAST_EXACT) # 0
  \/ (n - EpochStartingSat(EpochOfSat(n))) % EpochSubsidy(EpochOfSat(n)) # 0

Degree(n) ==
  [hour |-> SatHeight(n) \div (CYCLE_EPOCHS * SUBSIDY_HALVING_INTERVAL),
   minute |-> SatHeight(n) % SUBSIDY_HALVING_INTERVAL,
   second |-> SatHeight(n) % DIFFCHANGE_INTERVAL,
   third |-> third(n)]

DecimalSat(n) == [height |-> SatHeight(n), offset |-> third(n)]

Rarity(n) ==
  LET d == Degree(n) IN
  CASE d.third # 0 -> "common"
    [] d.third = 0 /\ d.minute # 0 /\ d.second # 0 -> "uncommon"
    [] d.third = 0 /\ d.minute # 0 /\ d.second = 0 -> "rare"
    [] d.third = 0 /\ d.minute = 0 /\ d.second # 0 -> "epic"
    [] OTHER -> IF d.hour = 0 THEN "mythic" ELSE "legendary"

\* Charm: the bit of every charm that a sat can have, and the order of ALL.
CharmBit == [coin |-> 0, epic |-> 2, legendary |-> 3, nineball |-> 5, rare |-> 6,
             uncommon |-> 9, mythic |-> 11, palindrome |-> 13]
AllCharms == <<"coin", "uncommon", "rare", "epic", "legendary", "mythic", "nineball", "palindrome">>
CharmIsSet(c, bits) == (bits \div 2^CharmBit[c]) % 2 = 1
CharmSet(c, bits) == IF CharmIsSet(c, bits) THEN bits ELSE bits + 2^CharmBit[c]
CharmsOf(bits) == SelectSeq(AllCharms, LAMBDA c: CharmIsSet(c, bits))

charms(n) ==
  LET nine == IF nineball(n) THEN CharmSet("nineball", 0) ELSE 0
      pal == IF palindrome(n) THEN CharmSet("palindrome", nine) ELSE nine
      whole == IF coin(n) THEN CharmSet("coin", pal) ELSE pal
  IN  IF Rarity(n) = "common" THEN whole ELSE CharmSet(Rarity(n), whole)

\* The letters of a name, 0 for 'a'.
RECURSIVE NameLetters(_)
NameLetters(x) == IF x = 0 THEN <<>> ELSE Append(NameLetters((x - 1) \div 26), (x - 1) % 26)
name(n) == NameLetters(SUPPLY - n)

Ok(n) == [ok |-> TRUE, sat |-> n]
ParseError == [ok |-> FALSE, sat |-> 0]

\* Any other character is 26; x stays above SUPPLY once it is.
from_name(letters) ==
  LET x == FoldLeft(LAMBDA acc, c: IF acc > SUPPLY THEN acc ELSE acc * 26 + c + 1, 0, letters)
  IN  IF \E k \in DOMAIN letters : letters[k] = 26 THEN ParseError
      ELSE IF x > SUPPLY THEN ParseError
      ELSE Ok(SUPPLY - x)

\* The epoch is counted from the first one of the supply, not of the cycle.
from_degree_first_cycle(d) ==
  LET relationship == d.second + SUBSIDY_HALVING_INTERVAL * CYCLE_EPOCHS - d.minute
      epoch == (relationship % DIFFCHANGE_INTERVAL) \div HALVING_INCREMENT
      height == epoch * SUBSIDY_HALVING_INTERVAL + d.minute
  IN  IF d.third >= HeightSubsidy(height) THEN ParseError ELSE Ok(HeightStartingSat(height) + d.third)

from_degree(d) ==
  LET relationship == d.second + SUBSIDY_HALVING_INTERVAL * CYCLE_EPOCHS - d.minute
      since == (relationship % DIFFCHANGE_INTERVAL) \div HALVING_INCREMENT
      epoch == Word(Word(d.hour * CYCLE_EPOCHS) + since)
      height == Word(epoch * SUBSIDY_HALVING_INTERVAL + d.minute)
  IN  IF \/ d.minute >= SUBSIDY_HALVING_INTERVAL
         \/ d.second >= DIFFCHANGE_INTERVAL
         \/ relationship % HALVING_INCREMENT # 0
         \/ d.third >= HeightSubsidy(height)
        THEN ParseError
        ELSE Ok(HeightStartingSat(height) + d.third)

from_decimal(d) ==
  IF d.offset >= HeightSubsidy(d.height) THEN ParseError
  ELSE Ok(HeightStartingSat(d.height) + d.offset)

\* A percentage num/den, rounded to the nearest sat.  The code computes with
\* f64 and takes NaN for sat 0; here the percentage is an exact fraction, and
\* it is only parsed: Sat::percentile, which prints one, is not modelled.
from_percentile(num, den) ==
  LET n == (2 * num * LAST + 100 * den) \div (200 * den)
  IN  IF num < 0 \/ n > LAST THEN ParseError ELSE Ok(n)

from_integer(n) == IF n > LAST THEN ParseError ELSE Ok(n)

SatFromStr(s) ==
  CASE s.form = "name" -> from_name(s.letters)
    [] s.form = "degree" -> from_degree(s)
    [] s.form = "percentile" -> from_percentile(s.num, s.den)
    [] s.form = "decimal" -> from_decimal(s)
    [] OTHER -> from_integer(s.n)

\* varint.rs, with groups of GroupBits bits of a word of VarBits bits.
GroupBits == 3
VarBits == 8
LastGroup == (VarBits - 1) \div GroupBits

RECURSIVE encode_to_vec(_)
encode_to_vec(n) ==
  IF n \div 2^GroupBits = 0 THEN <<n>>
  ELSE <<(n % 2^GroupBits) + 2^GroupBits>> \o encode_to_vec(n \div 2^GroupBits)

RECURSIVE DecodeFrom(_, _, _)
DecodeFrom(buffer, i, n) ==
  LET group == (buffer[i + 1] % 2^GroupBits) * 2^(GroupBits * i)
      m == n + (group % 2^VarBits)
  IN
  IF i >= Len(buffer) \/ i > LastGroup THEN [ok |-> FALSE, n |-> 0, used |-> 0]
  ELSE IF buffer[i + 1] < 2^GroupBits THEN [ok |-> TRUE, n |-> m, used |-> i + 1]
  ELSE DecodeFrom(buffer, i + 1, m)

decode(buffer) == DecodeFrom(buffer, 0, 0)
-----------------------------------------------------------------------------
(***************************************************************************)
(* The reference: sats in the order in which the blocks create them.       *)
(***************************************************************************)
RECURSIVE SatsBefore(_)
SatsBefore(h) == IF h = 0 THEN 0 ELSE SatsBefore(h - 1) + HeightSubsidy(h - 1)

MintedAt(n, h) == SatsBefore(h) <= n /\ n < SatsBefore(h) + HeightSubsidy(h)
=============================================================================
