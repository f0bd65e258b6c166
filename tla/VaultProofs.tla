---------------------------- MODULE VaultProofs ----------------------------
(***************************************************************************)
(* What the operations of SharesTracker and SupplyVault do to shares and   *)
(* prices, for every scale of the arithmetic: the totals and their owners  *)
(* move together, shares change hands at the price of the moment, and      *)
(* interest lowers no price by more than the conversion's low bits.        *)
(***************************************************************************)
EXTENDS MarketEffects, TLAPS

\* Quotients of the checked arithmetic are integers, and natural if their
\* operands are.
LEMMA DivInt ==
    ASSUME NEW a \in Int, NEW b \in Nat, b # 0
    PROVE  a \div b \in Int
  OBVIOUS

LEMMA DivNat ==
    ASSUME NEW a \in Nat, NEW b \in Nat, b # 0
    PROVE  a \div b \in Nat
  OBVIOUS

LEMMA CheckedUIsNat ==
    ASSUME NEW x, NEW y \in CheckedU(x)
    PROVE  y \in Nat /\ y = x
  BY DEF CheckedU

LEMMA CheckedU64IsNat ==
    ASSUME NEW x, NEW y \in CheckedU64(x)
    PROVE  y \in Nat /\ y = x
  BY DEF CheckedU64

LEMMA SafeMulIsNat ==
    ASSUME NEW a \in Nat, NEW b \in Nat, NEW x \in u_safe_mul(a, b)
    PROVE  x \in Nat
  BY FixedPointAssumption, DivInt, CheckedUIsNat DEF u_safe_mul

LEMMA SafeDivIsNat ==
    ASSUME NEW a \in Nat, NEW b \in Nat, NEW x \in u_safe_div(a, b)
    PROVE  x \in Nat /\ b # 0
  BY FixedPointAssumption, DivInt, CheckedUIsNat DEF u_safe_div

\* Shares and atoms are natural numbers.
LEMMA SharesAreNat ==
    ASSUME NEW t \in Trackers, NEW atoms \in Nat, NEW s \in atoms_to_shares(t, atoms)
    PROVE  s \in Nat
  <1>1. u_from_u64(atoms) \in Nat /\ t.atoms_per_share \in Nat
    BY FixedPointAssumption DEF u_from_u64, Trackers
  <1> QED BY <1>1, SafeDivIsNat DEF atoms_to_shares

LEMMA AtomsDownAreNat ==
    ASSUME NEW t \in Trackers, NEW shares \in Nat, NEW a \in shares_to_atoms_down(t, shares)
    PROVE  a \in Nat
  <1>1. PICK x \in u_safe_mul(shares, t.atoms_per_share) : a = u_rounded_down(x)
    BY DEF shares_to_atoms_down
  <1>2. x \in Nat
    BY SafeMulIsNat DEF Trackers
  <1> QED BY <1>1, <1>2, DivNat, FixedPointAssumption DEF u_rounded_down

LEMMA AtomsUpAreNat ==
    ASSUME NEW t \in Trackers, NEW shares \in Nat, NEW a \in shares_to_atoms_up(t, shares)
    PROVE  a \in Nat
  <1>1. PICK x \in u_safe_mul(shares, t.atoms_per_share) : a = u_rounded_up(x)
    BY DEF shares_to_atoms_up
  <1>2. x \div UOne \in Nat
    BY SafeMulIsNat, DivNat, FixedPointAssumption DEF Trackers
  <1> QED BY <1>1, <1>2 DEF u_rounded_up

-----------------------------------------------------------------------------
(***************************************************************************)
(* The tracker: every operation that moves shares moves total_shares by    *)
(* the shares of its outcome and leaves the price alone.                   *)
(***************************************************************************)
Deposited(t, r) ==
    /\ r.shares \in Nat
    /\ r.tracker = WithShares(t, t.total_shares + r.shares)

Withdrawn(t, r) ==
    /\ r.shares \in Nat
    /\ r.shares <= t.total_shares
    /\ r.tracker = WithShares(t, t.total_shares - r.shares)

LEMMA DepositAtoms ==
    ASSUME NEW t \in Trackers, NEW atoms \in Nat, NEW r \in deposit_atoms(t, atoms)
    PROVE  Deposited(t, r) /\ r.atoms = atoms
  <1>1. PICK s \in atoms_to_shares(t, atoms) : \E n \in u_safe_add(t.total_shares, s) :
            r = [tracker |-> WithShares(t, n), shares |-> s, atoms |-> atoms]
    BY DEF deposit_atoms
  <1>2. s \in Nat /\ t.total_shares \in Nat
    BY SharesAreNat DEF Trackers
  <1>3. \A n \in u_safe_add(t.total_shares, s) : n = t.total_shares + s
    BY <1>2, CheckedUIsNat DEF u_safe_add
  <1> QED BY <1>1, <1>2, <1>3 DEF Deposited

LEMMA SafeSub ==
    ASSUME NEW a \in Nat, NEW b \in Nat, NEW n \in u_safe_sub(a, b)
    PROVE  n = a - b /\ b <= a
  BY CheckedUIsNat DEF u_safe_sub

LEMMA WithdrawAtoms ==
    ASSUME NEW t \in Trackers, NEW atoms \in Nat, NEW r \in withdraw_atoms(t, atoms)
    PROVE  Withdrawn(t, r) /\ r.atoms = atoms
  <1>1. PICK s \in atoms_to_shares(t, atoms) : \E n \in u_safe_sub(t.total_shares, s) :
            r = [tracker |-> WithShares(t, n), shares |-> s, atoms |-> atoms]
    BY DEF withdraw_atoms
  <1>2. s \in Nat /\ t.total_shares \in Nat
    BY SharesAreNat DEF Trackers
  <1>3. \A n \in u_safe_sub(t.total_shares, s) : n = t.total_shares - s /\ s <= t.total_shares
    BY <1>2, SafeSub
  <1> QED BY <1>1, <1>2, <1>3 DEF Withdrawn

LEMMA WithdrawSharesDown ==
    ASSUME NEW t \in Trackers, NEW shares \in Nat, NEW r \in withdraw_shares_down(t, shares)
    PROVE  Withdrawn(t, r) /\ r.shares = shares /\ r.atoms \in Nat
  <1>1. PICK a \in shares_to_atoms_down(t, shares), n \in u_safe_sub(t.total_shares, shares) :
            r = [tracker |-> WithShares(t, n), shares |-> shares, atoms |-> a]
    BY DEF withdraw_shares_down
  <1>2. a \in Nat /\ n = t.total_shares - shares /\ shares <= t.total_shares
    BY AtomsDownAreNat, SafeSub DEF Trackers
  <1> QED BY <1>1, <1>2 DEF Withdrawn

LEMMA WithdrawSharesUp ==
    ASSUME NEW t \in Trackers, NEW shares \in Nat, NEW r \in withdraw_shares_up(t, shares)
    PROVE  Withdrawn(t, r) /\ r.shares = shares /\ r.atoms \in Nat
  <1>1. PICK a \in shares_to_atoms_up(t, shares), n \in u_safe_sub(t.total_shares, shares) :
            r = [tracker |-> WithShares(t, n), shares |-> shares, atoms |-> a]
    BY DEF withdraw_shares_up
  <1>2. a \in Nat /\ n = t.total_shares - shares /\ shares <= t.total_shares
    BY AtomsUpAreNat, SafeSub DEF Trackers
  <1> QED BY <1>1, <1>2 DEF Withdrawn

LEMMA WithdrawAtomsCapped ==
    ASSUME NEW t \in Trackers, NEW atoms \in Nat, NEW max_shares \in Nat,
           NEW r \in withdraw_atoms_capped(t, atoms, max_shares)
    PROVE  Withdrawn(t, r) /\ r.atoms \in Nat /\ r.shares <= max_shares
  <1>1. PICK s \in atoms_to_shares(t, atoms) :
            r \in IF s > max_shares THEN withdraw_shares_up(t, max_shares)
                                    ELSE withdraw_atoms(t, atoms)
    BY DEF withdraw_atoms_capped
  <1>2. CASE s > max_shares
    BY <1>1, <1>2, WithdrawSharesUp
  <1>3. CASE ~(s > max_shares)
    <2>1. r.shares = s
      \* withdraw_atoms converts the same atoms again
      <3>1. r \in withdraw_atoms(t, atoms)
        BY <1>1, <1>3
      <3>2. PICK q \in atoms_to_shares(t, atoms) : \E n \in u_safe_sub(t.total_shares, q) :
                r = [tracker |-> WithShares(t, n), shares |-> q, atoms |-> atoms]
        BY <3>1 DEF withdraw_atoms
      <3>3. q = s
        BY DEF atoms_to_shares, u_safe_div, CheckedU
      <3> QED BY <3>2, <3>3
    <2> QED BY <1>1, <1>3, <2>1, WithdrawAtoms, SharesAreNat
  <1> QED BY <1>2, <1>3

-----------------------------------------------------------------------------
(***************************************************************************)
(* What shares and atoms are worth.                                        *)
(***************************************************************************)
LEMMA DivRange ==
    ASSUME NEW a \in Nat, NEW b \in Nat \ {0}
    PROVE  /\ a \div b \in Nat
           /\ b * (a \div b) <= a /\ a < b * (a \div b) + b
  <1>1. a \div b \in Nat
    BY DivNat
  <1>2. a = b * (a \div b) + (a % b) /\ (a % b) \in 0..(b - 1)
    OBVIOUS
  <1>3. b * (a \div b) \in Nat
    BY <1>1
  <1> QED BY <1>1, <1>2, <1>3

LEMMA MulMonotone ==
    ASSUME NEW a \in Int, NEW b \in Int, NEW k \in Nat, a <= b
    PROVE  k * a <= k * b
  OBVIOUS

LEMMA DivBounded ==
    ASSUME NEW a \in Nat, NEW b \in Nat \ {0}, NEW c \in Nat, a <= c * b
    PROVE  a \div b \in Nat /\ a \div b <= c
  <1>1. a \div b \in Nat
    BY DivNat
  <1>2. a = b * (a \div b) + (a % b) /\ (a % b) \in 0..(b - 1)
    OBVIOUS
  <1>3. b * (a \div b) <= c * b
    BY <1>1, <1>2
  <1>4. ASSUME c < a \div b PROVE FALSE
    <2> DEFINE d == a \div b
    <2>1. d \in Nat /\ c + 1 <= d
      BY <1>1, <1>4
    <2> HIDE DEF d
    <2>2. b * (c + 1) <= b * d
      BY <2>1
    <2>3. b * (c + 1) = c * b + b
      OBVIOUS
    <2> QED BY <1>3, <2>1, <2>2, <2>3 DEF d
  <1> QED BY <1>1, <1>4

\* Shares for atoms, rounded down.
LEMMA SharesWorth ==
    ASSUME NEW t \in Trackers, NEW atoms \in Nat, NEW s \in atoms_to_shares(t, atoms)
    PROVE  /\ Worth(s, atoms, t.atoms_per_share)
           /\ s * t.atoms_per_share <= atoms * (UOne * UOne)
  <1> DEFINE p == t.atoms_per_share
             x == (atoms * UOne) * UOne
  <1>1. UOne \in Nat \ {0} /\ p \in Nat
    BY FixedPointAssumption DEF Trackers
  <1>2. p # 0 /\ s \in CheckedU(x \div p)
    BY <1>1 DEF atoms_to_shares, u_safe_div, u_from_u64
  <1>3. s = x \div p
    BY <1>2, CheckedUIsNat
  <1>4. x \in Nat /\ x = atoms * (UOne * UOne)
    <2>1. atoms * UOne \in Nat
      BY <1>1
    <2> QED BY <1>1, <2>1
  <1> HIDE DEF x, p
  <1>5. s \in Nat /\ p * s <= x /\ x < p * s + p
    BY <1>1, <1>2, <1>3, <1>4, DivRange
  <1>6. s * p = p * s /\ p * s \in Nat
    BY <1>1, <1>5
  <1>7. -p < s * p - x /\ s * p - x < p
    BY <1>1, <1>2, <1>4, <1>5, <1>6
  <1> QED BY <1>4, <1>5, <1>6, <1>7 DEF Worth, p

\* Atoms for shares.  Two truncations, of the product and of its fraction.
LEMMA TwiceTruncated ==
    ASSUME NEW n \in Nat, NEW p \in Nat, NEW u \in Nat \ {0}
    PROVE  LET x == (n * p) \div u
           IN  /\ x \in Nat /\ x \div u \in Nat
               /\ (x \div u) * (u * u) <= n * p
               /\ n * p < (x \div u) * (u * u) + u * u
               /\ x % u = 0 => n * p < (x \div u) * (u * u) + u
               /\ x % u # 0 => (x \div u) * (u * u) < n * p
  <1> DEFINE y == n * p
             x == y \div u
             a == x \div u
  <1>1. y \in Nat
    OBVIOUS
  <1> HIDE DEF y
  <1>2. x \in Nat /\ u * x <= y /\ y < u * x + u
    BY <1>1, DivRange
  <1> HIDE DEF x
  <1>3. a \in Nat /\ u * a <= x /\ x < u * a + u
    BY <1>2, DivRange
  <1>4. x = u * a + (x % u)
    BY <1>2
  <1> HIDE DEF a
  <1>5. a * (u * u) = u * (u * a) /\ u * a \in Nat /\ u * (u * a) \in Nat /\ u * u \in Nat /\ u * x \in Nat
    BY <1>2, <1>3
  <1>6. u * (u * a) <= u * x
    BY <1>2, <1>3, <1>5, MulMonotone
  <1>7. u * x <= u * (u * a + u - 1)
    BY <1>2, <1>3, <1>5, MulMonotone
  <1>8. u * (u * a + u - 1) = u * (u * a) + u * u - u
    BY <1>5
  <1>9. a * (u * u) <= y /\ y < a * (u * u) + u * u
    BY <1>1, <1>2, <1>5, <1>6, <1>7, <1>8
  <1>10. ASSUME x % u = 0 PROVE y < a * (u * u) + u
    <2>1. x = u * a
      BY <1>2, <1>3, <1>4, <1>5, <1>10
    <2> QED BY <1>1, <1>2, <1>5, <2>1
  <1>11. ASSUME x % u # 0 PROVE a * (u * u) < y
    <2>1. x % u \in 0..(u - 1)
      BY <1>2
    <2>2. u * a + 1 <= x
      BY <1>2, <1>4, <1>5, <1>11, <2>1
    <2>3. u * (u * a + 1) <= u * x
      BY <1>2, <1>5, <2>2, MulMonotone
    <2>4. u * (u * a + 1) = u * (u * a) + u
      BY <1>5
    <2> QED BY <1>1, <1>2, <1>5, <2>3, <2>4
  <1> QED BY <1>2, <1>3, <1>9, <1>10, <1>11 DEF a, x, y

LEMMA AtomsDownWorth ==
    ASSUME NEW t \in Trackers, NEW shares \in Nat, NEW a \in shares_to_atoms_down(t, shares)
    PROVE  /\ Worth(shares, a, t.atoms_per_share)
           /\ shares * t.atoms_per_share < (a + 1) * (UOne * UOne)
  <1> DEFINE p == t.atoms_per_share
             x == (shares * p) \div UOne
             one == UOne * UOne
  <1>1. UOne \in Nat \ {0} /\ p \in Nat /\ one \in Nat /\ shares * p \in Nat
    BY FixedPointAssumption DEF Trackers
  <1>2. PICK y \in CheckedU(x) : a = u_rounded_down(y)
    BY DEF shares_to_atoms_down, u_safe_mul
  <1>3. a = x \div UOne
    BY <1>2, CheckedUIsNat DEF u_rounded_down
  <1>4. x \div UOne \in Nat /\ (x \div UOne) * one <= shares * p /\ shares * p < (x \div UOne) * one + one
    BY <1>1, TwiceTruncated
  <1> HIDE DEF x
  <1>5. a \in Nat /\ a * one <= shares * p /\ shares * p < a * one + one
    BY <1>3, <1>4
  <1>6. a * one \in Nat /\ (a + 1) * one = a * one + one
    BY <1>1, <1>5
  <1> HIDE DEF one, p
  <1>7. -one < shares * p - a * one /\ shares * p - a * one < one
    BY <1>1, <1>5, <1>6
  <1> QED BY <1>5, <1>6, <1>7 DEF Worth, one, p

LEMMA AtomsUpWorth ==
    ASSUME NEW t \in Trackers, NEW shares \in Nat, NEW a \in shares_to_atoms_up(t, shares)
    PROVE  /\ Worth(shares, a, t.atoms_per_share)
           /\ a * (UOne * UOne) < shares * t.atoms_per_share + UOne * UOne
  <1> DEFINE p == t.atoms_per_share
             x == (shares * p) \div UOne
             d == x \div UOne
             one == UOne * UOne
  <1>1. UOne \in Nat \ {0} /\ p \in Nat /\ one \in Nat /\ shares * p \in Nat /\ one # 0
    BY FixedPointAssumption DEF Trackers
  <1>2. PICK y \in CheckedU(x) : a = u_rounded_up(y)
    BY DEF shares_to_atoms_up, u_safe_mul
  <1>3. y = x
    BY <1>2, CheckedUIsNat
  <1>4. /\ d \in Nat /\ d * one <= shares * p /\ shares * p < d * one + one
        /\ x % UOne # 0 => d * one < shares * p
    BY <1>1, TwiceTruncated
  <1>5. a = d \/ (x % UOne # 0 /\ a = d + 1)
    BY <1>2, <1>3 DEF u_rounded_up
  <1> HIDE DEF x, d
  <1>6. d * one \in Nat /\ (d + 1) * one = d * one + one
    BY <1>1, <1>4
  <1> HIDE DEF one, p
  <1>7. CASE a = d
    <2>1. -one < shares * p - a * one /\ shares * p - a * one < one /\ a * one < shares * p + one
      BY <1>1, <1>4, <1>6, <1>7
    <2> QED BY <2>1 DEF Worth, one, p
  <1>8. CASE x % UOne # 0 /\ a = d + 1
    <2>1. -one < shares * p - a * one /\ shares * p - a * one < one /\ a * one < shares * p + one
      BY <1>1, <1>4, <1>6, <1>8
    <2> QED BY <2>1 DEF Worth, one, p
  <1> QED BY <1>5, <1>7, <1>8

\* A capped repayment never costs more atoms than were offered.
LEMMA CappedWorth ==
    ASSUME NEW t \in Trackers, NEW atoms \in Nat, NEW max_shares \in Nat,
           NEW r \in withdraw_atoms_capped(t, atoms, max_shares)
    PROVE  Worth(r.shares, r.atoms, t.atoms_per_share) /\ r.atoms \in Nat /\ r.atoms <= atoms
  <1> DEFINE p == t.atoms_per_share
             one == UOne * UOne
  <1>0. UOne \in Nat \ {0} /\ p \in Nat /\ one \in Nat \ {0}
    BY FixedPointAssumption DEF Trackers
  <1>1. PICK s \in atoms_to_shares(t, atoms) :
            r \in IF s > max_shares THEN withdraw_shares_up(t, max_shares)
                                    ELSE withdraw_atoms(t, atoms)
    BY DEF withdraw_atoms_capped
  <1>2. CASE s > max_shares
    <2>1. r.shares = max_shares /\ r.atoms \in shares_to_atoms_up(t, max_shares)
      BY <1>1, <1>2 DEF withdraw_shares_up
    <2>2. Worth(r.shares, r.atoms, p) /\ r.atoms * one < max_shares * p + one /\ r.atoms \in Nat
      BY <2>1, AtomsUpWorth, AtomsUpAreNat
    <2>3. s \in Nat /\ s * p <= atoms * one
      BY SharesAreNat, SharesWorth
    <2>4. p * max_shares <= p * s
      BY <1>0, <1>2, <2>3, MulMonotone
    <2>5. p * max_shares = max_shares * p /\ p * s = s * p
      BY <1>0, <2>3
    <2> DEFINE n == max_shares * p
               k == s * p
    <2>6. n \in Nat /\ k \in Nat /\ n <= k
      BY <1>0, <2>3, <2>4, <2>5
    <2>7. r.atoms * one < n + one /\ k <= atoms * one
      BY <2>2, <2>3
    <2> HIDE DEF one, n, k
    <2>8. r.atoms <= atoms
      <3> SUFFICES ASSUME atoms + 1 <= r.atoms PROVE FALSE
        BY <2>2
      <3>1. one * (atoms + 1) <= one * r.atoms
        BY <1>0, <2>2, MulMonotone
      <3>2. /\ one * (atoms + 1) = atoms * one + one /\ one * r.atoms = r.atoms * one
            /\ atoms * one \in Nat /\ r.atoms * one \in Nat
        BY <1>0, <2>2
      <3> QED BY <1>0, <2>6, <2>7, <3>1, <3>2
    <2> QED BY <2>2, <2>8
  <1>3. CASE ~(s > max_shares)
    <2>1. r \in withdraw_atoms(t, atoms)
      BY <1>1, <1>3
    <2>2. r.atoms = atoms /\ r.shares \in atoms_to_shares(t, atoms)
      BY <2>1 DEF withdraw_atoms
    <2> QED BY <2>2, SharesWorth
  <1> QED BY <1>2, <1>3

LEMMA MovedWorth ==
    ASSUME NEW t \in Trackers, NEW n \in Nat,
           NEW r \in deposit_atoms(t, n) \cup withdraw_atoms(t, n)
                       \cup withdraw_shares_down(t, n) \cup withdraw_shares_up(t, n)
    PROVE  Worth(r.shares, r.atoms, t.atoms_per_share)
  <1>1. CASE r \in deposit_atoms(t, n) \cup withdraw_atoms(t, n)
    <2>1. r.atoms = n /\ r.shares \in atoms_to_shares(t, n)
      BY <1>1 DEF deposit_atoms, withdraw_atoms
    <2> QED BY <2>1, SharesWorth
  <1>2. CASE r \in withdraw_shares_down(t, n)
    <2>1. r.shares = n /\ r.atoms \in shares_to_atoms_down(t, n)
      BY <1>2 DEF withdraw_shares_down
    <2> QED BY <2>1, AtomsDownWorth
  <1>3. CASE r \in withdraw_shares_up(t, n)
    <2>1. r.shares = n /\ r.atoms \in shares_to_atoms_up(t, n)
      BY <1>3 DEF withdraw_shares_up
    <2> QED BY <2>1, AtomsUpWorth
  <1> QED BY <1>1, <1>2, <1>3

-----------------------------------------------------------------------------
(***************************************************************************)
(* Interest on a price.                                                    *)
(***************************************************************************)
LEMMA LowBitsIsPositive == LowBits \in Nat \ {0} /\ UOne = IOne * LowBits
  <1>1. UOne % IOne = 0 /\ UOne \in Nat \ {0} /\ IOne \in Nat \ {0}
    BY FixedPointAssumption
  <1>2. LowBits \in Nat
    BY <1>1, DivNat DEF LowBits
  <1>3. UOne = IOne * LowBits + (UOne % IOne)
    BY <1>1 DEF LowBits
  <1> QED BY <1>1, <1>2, <1>3

LEMMA DivExact ==
    ASSUME NEW k \in Nat, NEW b \in Nat \ {0}
    PROVE  (k * b) \div b = k
  OBVIOUS

LEMMA AccruedPrice ==
    ASSUME NEW t \in Trackers, NEW rate \in Nat, NEW r \in apply_interest_rate(t, rate)
    PROVE  /\ r \in Trackers
           /\ r.total_shares = t.total_shares
           /\ Aligned(t.atoms_per_share) =>
                 Aligned(r.atoms_per_share) /\ t.atoms_per_share <= r.atoms_per_share
  <1> DEFINE aps == i_from_ufixed(t.atoms_per_share)
             grown == i_mul(rate, aps) + aps
  <1>1. CASE t.total_shares = 0
    BY <1>1 DEF apply_interest_rate, Trackers
  <1>2. CASE t.total_shares # 0
    <2>1. PICK p \in u_from_ifixed(grown) : r = WithPrice(t, p)
      BY <1>2 DEF apply_interest_rate
    <2>2. aps \in Nat /\ t.atoms_per_share \in Nat
      BY LowBitsIsPositive, DivNat DEF i_from_ufixed, Trackers
    <2>3. i_mul(rate, aps) \in Nat
      <3>1. rate * aps \in Nat
        BY <2>2
      <3> QED BY <3>1, DivNat, FixedPointAssumption DEF i_mul
    <2>4. grown \in Nat /\ aps <= grown
      BY <2>2, <2>3
    <2>5. grown * LowBits \in Nat
      BY <2>4, LowBitsIsPositive
    <2>6. p \in Nat /\ p = grown * LowBits
      BY <2>5, CheckedUIsNat DEF u_from_ifixed
    <2>7. ASSUME NEW k \in Nat, t.atoms_per_share = k * LowBits
          PROVE  t.atoms_per_share <= p
      <3>1. aps = k
        BY <2>7, LowBitsIsPositive, DivExact DEF i_from_ufixed
      <3>2. aps * LowBits <= grown * LowBits
        BY <2>2, <2>4, LowBitsIsPositive
      <3> QED BY <2>6, <2>7, <3>1, <3>2
    <2>8. Aligned(p)
      BY <2>4, <2>6 DEF Aligned
    <2>9. Aligned(t.atoms_per_share) => t.atoms_per_share <= p
      BY <2>7 DEF Aligned
    <2>10. r = [t EXCEPT !.atoms_per_share = p]
      BY <2>1 DEF WithPrice
    <2> QED BY <2>6, <2>8, <2>9, <2>10 DEF Trackers
  <1> QED BY <1>1, <1>2 DEF Trackers

\* A fee of at most 100% leaves some of the interest, and interest lowers the
\* price by less than the low bits of its conversion.
LEMMA FeePart ==
    ASSUME NEW x \in Nat, NEW fee \in Nat, fee <= UOne
    PROVE  /\ i_mul(x, i_from_ufixed(fee)) \in Nat
           /\ i_mul(x, i_from_ufixed(fee)) <= x
  <1> DEFINE f == i_from_ufixed(fee)
  <1>1. f \in Nat /\ f <= IOne
    BY LowBitsIsPositive, FixedPointAssumption, DivBounded DEF i_from_ufixed
  <1> HIDE DEF f
  <1>2. x * f \in Nat /\ x * f <= x * IOne
    BY <1>1, FixedPointAssumption, MulMonotone
  <1>3. (x * f) \div IOne \in Nat /\ (x * f) \div IOne <= x
    BY <1>2, FixedPointAssumption, DivBounded
  <1> QED BY <1>3 DEF i_mul, f

LEMMA PriceWithInterest ==
    ASSUME NEW price \in Nat, NEW net \in Nat
    PROVE  LET aps == i_from_ufixed(price)
           IN  price < (i_mul(net, aps) + aps) * LowBits + LowBits
  <1> DEFINE aps == i_from_ufixed(price)
             interest == i_mul(net, aps)
  <1>1. aps \in Nat /\ price < LowBits * aps + LowBits
    BY LowBitsIsPositive, DivRange DEF i_from_ufixed
  <1> HIDE DEF aps
  <1>2. net * aps \in Nat
    BY <1>1
  <1>3. interest \in Nat
    BY <1>2, FixedPointAssumption, DivNat DEF i_mul
  <1> HIDE DEF interest
  <1>4. LowBits * aps <= LowBits * (interest + aps)
    BY <1>1, <1>3, LowBitsIsPositive, MulMonotone
  <1>5. LowBits * (interest + aps) = (interest + aps) * LowBits /\ (interest + aps) * LowBits \in Nat
        /\ LowBits * aps \in Nat
    BY <1>1, <1>3, LowBitsIsPositive
  <1>6. price < (interest + aps) * LowBits + LowBits
    BY <1>1, <1>4, <1>5, LowBitsIsPositive
  <1> QED BY <1>6 DEF interest, aps

LEMMA AccruedWithFee ==
    ASSUME NEW t \in Trackers, NEW rate \in Nat, NEW fee \in Nat,
           NEW r \in apply_interest_rate_with_fee(t, rate, fee)
    PROVE  /\ r.tracker \in Trackers
           /\ r.shares \in Nat
           /\ r.tracker.total_shares = t.total_shares + r.shares
           /\ fee <= UOne => t.atoms_per_share < r.tracker.atoms_per_share + LowBits
  <1> DEFINE aps == i_from_ufixed(t.atoms_per_share)
             fee_atoms(total) == i_mul(rate * total, i_from_ufixed(fee))
             net_rate(total) == (rate * total - fee_atoms(total)) \div total
             NewPrice(total) == u_from_ifixed(i_mul(net_rate(total), aps) + aps)
             Outcomes(p, s) ==
                 {[tracker |-> WithPrice(WithShares(t, n), p), shares |-> s] :
                     n \in u_safe_add(s, t.total_shares)}
  <1>1. PICK total \in shares_to_atoms_down(t, t.total_shares) :
            r \in IF total = 0
                  THEN {[tracker |-> t, shares |-> 0]}
                  ELSE UNION {UNION {Outcomes(p, s) : s \in FeeShares(fee_atoms(total), p)} :
                              p \in NewPrice(total)}
    BY DEF apply_interest_rate_with_fee
  <1>2. total \in Nat /\ aps \in Nat /\ i_from_ufixed(fee) \in Nat
    BY AtomsDownAreNat, LowBitsIsPositive, DivNat DEF i_from_ufixed, Trackers
  <1>3. CASE total = 0
    BY <1>1, <1>3, LowBitsIsPositive DEF Trackers
  <1>4. CASE total # 0
    <2>1. PICK p \in NewPrice(total) : \E s \in FeeShares(fee_atoms(total), p) : r \in Outcomes(p, s)
      BY <1>1, <1>4
    <2>2. fee_atoms(total) \in Int
      <3>1. (rate * total) * i_from_ufixed(fee) \in Int
        BY <1>2
      <3> QED BY <3>1, DivInt, FixedPointAssumption DEF i_mul
    <2>3. net_rate(total) \in Int
      <3>1. rate * total - fee_atoms(total) \in Int
        BY <1>2, <2>2
      <3> HIDE DEF fee_atoms
      <3> QED BY <3>1, <1>2, <1>4, DivInt
    <2>4. i_mul(net_rate(total), aps) + aps \in Int
      <3> HIDE DEF net_rate, aps
      <3>1. net_rate(total) * aps \in Int
        BY <1>2, <2>3
      <3> QED BY <3>1, <1>2, DivInt, FixedPointAssumption DEF i_mul
    <2>5. p \in Nat
      <3> HIDE DEF net_rate, aps
      <3>1. (i_mul(net_rate(total), aps) + aps) * LowBits \in Int
        BY <2>4, LowBitsIsPositive
      <3> QED BY <3>1, CheckedUIsNat DEF u_from_ifixed
    <2>6. PICK s \in FeeShares(fee_atoms(total), p) : r \in Outcomes(p, s)
      BY <2>1
    <2>7. s \in Nat
      <3> DEFINE fa == fee_atoms(total)
                 price == i_from_ufixed(p)
      <3>1. PICK q \in i_safe_div(fa, price) : s \in u_from_ifixed(q)
        BY <2>6 DEF FeeShares
      <3>2. price \in Nat
        BY <2>5, LowBitsIsPositive, DivNat DEF i_from_ufixed
      <3> HIDE DEF fa, price
      <3>3. q \in Int
        <4>1. price # 0 /\ q = (fa * IOne) \div price
          BY <3>1 DEF i_safe_div
        <4>2. fa \in Int
          BY <2>2 DEF fa
        <4>3. fa * IOne \in Int
          BY <4>2, FixedPointAssumption
        <4> QED BY <4>1, <4>3, <3>2, DivInt
      <3>4. q * LowBits \in Int
        BY <3>3, LowBitsIsPositive
      <3> QED BY <3>1, <3>4, CheckedUIsNat DEF u_from_ifixed
    <2>8. PICK n \in u_safe_add(s, t.total_shares) :
              r = [tracker |-> WithPrice(WithShares(t, n), p), shares |-> s]
      BY <2>6
    <2>9. n = t.total_shares + s /\ n \in Nat
      BY <2>7, <2>8, CheckedUIsNat DEF u_safe_add, Trackers
    <2>10. /\ WithPrice(WithShares(t, n), p) \in Trackers
           /\ WithPrice(WithShares(t, n), p).total_shares = n
           /\ WithPrice(WithShares(t, n), p).atoms_per_share = p
      BY <2>5, <2>9, Zenon DEF WithPrice, WithShares, Trackers
    <2>11. ASSUME fee <= UOne PROVE t.atoms_per_share < p + LowBits
      <3>1. p = (i_mul(net_rate(total), aps) + aps) * LowBits
        BY CheckedUIsNat DEF u_from_ifixed
      <3>2. net_rate(total) \in Nat
        <4>1. rate * total \in Nat
          BY <1>2
        <4>2. rate * total - fee_atoms(total) \in Nat
          BY <2>11, <4>1, FeePart
        <4> HIDE DEF fee_atoms
        <4> QED BY <1>2, <1>4, <4>2, DivNat
      <3> HIDE DEF net_rate
      <3> QED BY <3>1, <3>2, PriceWithInterest DEF Trackers
    <2> QED BY <2>5, <2>7, <2>8, <2>9, <2>10, <2>11 DEF Trackers
  <1> QED BY <1>3, <1>4

-----------------------------------------------------------------------------
(***************************************************************************)
(* The supply vault: a supply operation moves the supply tracker by d      *)
(* shares, a borrow operation the borrow tracker, and nothing else moves.  *)
(***************************************************************************)
SupplyMoved(v, w, d) ==
    /\ w \in Vaults
    /\ w.borrow = v.borrow
    /\ w.supply.atoms_per_share = v.supply.atoms_per_share
    /\ w.supply.total_shares = v.supply.total_shares + d

BorrowMoved(v, w, d) ==
    /\ w \in Vaults
    /\ w.supply = v.supply
    /\ SameFeesAndClock(v, w)
    /\ w.borrow.atoms_per_share = v.borrow.atoms_per_share
    /\ w.borrow.total_shares = v.borrow.total_shares + d

LEMMA VaultTypes ==
    ASSUME NEW v \in Vaults
    PROVE  /\ v.supply \in Trackers /\ v.borrow \in Trackers
           /\ v.supply.total_shares \in Nat /\ v.supply.atoms_per_share \in Nat
           /\ v.borrow.total_shares \in Nat /\ v.borrow.atoms_per_share \in Nat
           /\ v.protocol_fee_shares \in Nat /\ v.curator_fee_shares \in Nat
           /\ v.last_update \in Nat
  BY DEF Vaults, Trackers

LEMMA TrackerMoves ==
    ASSUME NEW t \in Trackers, NEW r, Deposited(t, r) \/ Withdrawn(t, r)
    PROVE  /\ r.shares \in Nat
           /\ r.tracker \in Trackers
           /\ r.tracker.atoms_per_share = t.atoms_per_share
           /\ Deposited(t, r) => r.tracker.total_shares = t.total_shares + r.shares
           /\ Withdrawn(t, r) => r.tracker.total_shares = t.total_shares - r.shares
  BY DEF Deposited, Withdrawn, WithShares, Trackers

LEMMA OnSupplyMoves ==
    ASSUME NEW v \in Vaults, NEW outcomes, NEW r \in OnSupply(v, outcomes),
           \A q \in outcomes : q.tracker \in Trackers
    PROVE  \E q \in outcomes :
              /\ r.shares = q.shares /\ r.atoms = q.atoms
              /\ r.vault \in Vaults /\ SameFeesAndClock(v, r.vault)
              /\ r.vault.borrow = v.borrow /\ r.vault.supply = q.tracker
  <1>1. PICK q \in outcomes :
            r = [vault |-> [v EXCEPT !.supply = q.tracker], shares |-> q.shares, atoms |-> q.atoms]
    BY DEF OnSupply
  <1> QED BY <1>1 DEF Vaults, SameFeesAndClock

LEMMA OnBorrowMoves ==
    ASSUME NEW v \in Vaults, NEW outcomes, NEW r \in OnBorrow(v, outcomes),
           \A q \in outcomes : q.tracker \in Trackers
    PROVE  \E q \in outcomes :
              /\ r.shares = q.shares /\ r.atoms = q.atoms
              /\ r.vault \in Vaults /\ SameFeesAndClock(v, r.vault)
              /\ r.vault.supply = v.supply /\ r.vault.borrow = q.tracker
  <1>1. PICK q \in outcomes :
            r = [vault |-> [v EXCEPT !.borrow = q.tracker], shares |-> q.shares, atoms |-> q.atoms]
    BY DEF OnBorrow
  <1> QED BY <1>1 DEF Vaults, SameFeesAndClock

LEMMA VaultLend ==
    ASSUME NEW v \in Vaults, NEW atoms \in Nat, NEW r \in vault_lend(v, atoms)
    PROVE  /\ r.shares \in Nat
           /\ SupplyMoved(v, r.vault, r.shares) /\ SameFeesAndClock(v, r.vault)
  <1>1. \A q \in deposit_atoms(v.supply, atoms) : Deposited(v.supply, q)
    BY VaultTypes, DepositAtoms
  <1>2. \A q \in deposit_atoms(v.supply, atoms) :
            /\ q.shares \in Nat /\ q.tracker \in Trackers
            /\ q.tracker.atoms_per_share = v.supply.atoms_per_share
            /\ q.tracker.total_shares = v.supply.total_shares + q.shares
    BY <1>1, VaultTypes, TrackerMoves
  <1> QED BY <1>2, OnSupplyMoves DEF vault_lend, SupplyMoved

LEMMA VaultWithdrawAtoms ==
    ASSUME NEW v \in Vaults, NEW atoms \in Nat, NEW r \in vault_withdraw_atoms(v, atoms)
    PROVE  /\ r.shares \in Nat
           /\ SupplyMoved(v, r.vault, -r.shares) /\ SameFeesAndClock(v, r.vault)
  <1>1. \A q \in withdraw_atoms(v.supply, atoms) : Withdrawn(v.supply, q)
    BY VaultTypes, WithdrawAtoms
  <1>2. \A q \in withdraw_atoms(v.supply, atoms) :
            /\ q.shares \in Nat /\ q.tracker \in Trackers
            /\ q.tracker.atoms_per_share = v.supply.atoms_per_share
            /\ q.tracker.total_shares = v.supply.total_shares - q.shares
    BY <1>1, VaultTypes, TrackerMoves
  <1>3. \A s \in Nat : v.supply.total_shares - s = v.supply.total_shares + -s
    BY VaultTypes
  <1> QED BY <1>2, <1>3, OnSupplyMoves DEF vault_withdraw_atoms, SupplyMoved

LEMMA VaultWithdrawShares ==
    ASSUME NEW v \in Vaults, NEW shares \in Nat, NEW r \in vault_withdraw_shares(v, shares)
    PROVE  /\ r.atoms \in Nat
           /\ SupplyMoved(v, r.vault, -shares) /\ SameFeesAndClock(v, r.vault)
  <1>1. \A q \in withdraw_shares_down(v.supply, shares) :
            Withdrawn(v.supply, q) /\ q.shares = shares /\ q.atoms \in Nat
    BY VaultTypes, WithdrawSharesDown
  <1>2. \A q \in withdraw_shares_down(v.supply, shares) :
            /\ q.shares = shares /\ q.tracker \in Trackers /\ q.atoms \in Nat
            /\ q.tracker.atoms_per_share = v.supply.atoms_per_share
            /\ q.tracker.total_shares = v.supply.total_shares - q.shares
    BY <1>1, VaultTypes, TrackerMoves
  <1>3. v.supply.total_shares - shares = v.supply.total_shares + -shares
    BY VaultTypes
  <1> QED BY <1>2, <1>3, OnSupplyMoves DEF vault_withdraw_shares, SupplyMoved

LEMMA VaultBorrow ==
    ASSUME NEW v \in Vaults, NEW atoms \in Nat, NEW r \in vault_borrow(v, atoms)
    PROVE  r.shares \in Nat /\ BorrowMoved(v, r.vault, r.shares)
  <1>1. \A q \in deposit_atoms(v.borrow, atoms) : Deposited(v.borrow, q)
    BY VaultTypes, DepositAtoms
  <1>2. \A q \in deposit_atoms(v.borrow, atoms) :
            /\ q.shares \in Nat /\ q.tracker \in Trackers
            /\ q.tracker.atoms_per_share = v.borrow.atoms_per_share
            /\ q.tracker.total_shares = v.borrow.total_shares + q.shares
    BY <1>1, VaultTypes, TrackerMoves
  <1> QED BY <1>2, OnBorrowMoves DEF vault_borrow, BorrowMoved

\* What the three repayments have in common.
LEMMA OnBorrowRepays ==
    ASSUME NEW v \in Vaults, NEW outcomes, NEW r \in OnBorrow(v, outcomes),
           \A q \in outcomes : Withdrawn(v.borrow, q) /\ q.atoms \in Nat
    PROVE  /\ r.shares \in Nat /\ r.atoms \in Nat
           /\ BorrowMoved(v, r.vault, -r.shares)
           /\ \E q \in outcomes : r.shares = q.shares
  <1>1. \A q \in outcomes :
            /\ q.shares \in Nat /\ q.tracker \in Trackers
            /\ q.tracker.atoms_per_share = v.borrow.atoms_per_share
            /\ q.tracker.total_shares = v.borrow.total_shares - q.shares
    BY VaultTypes, TrackerMoves
  <1>2. PICK q \in outcomes :
              /\ r.shares = q.shares /\ r.atoms = q.atoms
              /\ r.vault \in Vaults /\ SameFeesAndClock(v, r.vault)
              /\ r.vault.supply = v.supply /\ r.vault.borrow = q.tracker
    BY <1>1, OnBorrowMoves
  <1>3. v.borrow.total_shares - q.shares = v.borrow.total_shares + -q.shares
    BY <1>1, VaultTypes
  <1> QED BY <1>1, <1>2, <1>3 DEF BorrowMoved

LEMMA VaultRepayAtoms ==
    ASSUME NEW v \in Vaults, NEW atoms \in Nat, NEW r \in vault_repay_atoms(v, atoms)
    PROVE  r.shares \in Nat /\ BorrowMoved(v, r.vault, -r.shares)
  <1>1. \A q \in withdraw_atoms(v.borrow, atoms) : Withdrawn(v.borrow, q) /\ q.atoms \in Nat
    BY VaultTypes, WithdrawAtoms
  <1> QED BY <1>1, OnBorrowRepays DEF vault_repay_atoms

LEMMA VaultRepayShares ==
    ASSUME NEW v \in Vaults, NEW shares \in Nat, NEW r \in vault_repay_shares(v, shares)
    PROVE  r.atoms \in Nat /\ r.shares = shares /\ BorrowMoved(v, r.vault, -shares)
  <1>1. \A q \in withdraw_shares_up(v.borrow, shares) :
            Withdrawn(v.borrow, q) /\ q.atoms \in Nat /\ q.shares = shares
    BY VaultTypes, WithdrawSharesUp
  <1>2. /\ r.atoms \in Nat /\ BorrowMoved(v, r.vault, -r.shares)
        /\ \E q \in withdraw_shares_up(v.borrow, shares) : r.shares = q.shares
    BY <1>1, OnBorrowRepays DEF vault_repay_shares
  <1>3. r.shares = shares
    BY <1>1, <1>2
  <1> QED BY <1>2, <1>3

LEMMA VaultRepayCapped ==
    ASSUME NEW v \in Vaults, NEW atoms \in Nat, NEW max_shares \in Nat,
           NEW r \in vault_repay_atoms_capped(v, atoms, max_shares)
    PROVE  /\ r.atoms \in Nat /\ r.shares \in Nat /\ r.shares <= max_shares
           /\ BorrowMoved(v, r.vault, -r.shares)
  <1>1. \A q \in withdraw_atoms_capped(v.borrow, atoms, max_shares) :
            Withdrawn(v.borrow, q) /\ q.atoms \in Nat /\ q.shares <= max_shares
    BY VaultTypes, WithdrawAtomsCapped
  <1>2. /\ r.atoms \in Nat /\ r.shares \in Nat /\ BorrowMoved(v, r.vault, -r.shares)
        /\ \E q \in withdraw_atoms_capped(v.borrow, atoms, max_shares) : r.shares = q.shares
    BY <1>1, OnBorrowRepays DEF vault_repay_atoms_capped
  <1> QED BY <1>1, <1>2

\* The fee shares that are redeemed leave the tracker and the fee counter.
\* The vault passes the tracker's shares and atoms on.
LEMMA SupplyWorth ==
    ASSUME NEW v \in Vaults, NEW n \in Nat,
           NEW r \in vault_lend(v, n) \cup vault_withdraw_atoms(v, n) \cup vault_withdraw_shares(v, n)
    PROVE  Worth(r.shares, r.atoms, v.supply.atoms_per_share)
  <1>1. PICK q \in deposit_atoms(v.supply, n) \cup withdraw_atoms(v.supply, n)
                     \cup withdraw_shares_down(v.supply, n) :
            r.shares = q.shares /\ r.atoms = q.atoms
    BY DEF vault_lend, vault_withdraw_atoms, vault_withdraw_shares, OnSupply
  <1> QED BY <1>1, VaultTypes, MovedWorth

LEMMA BorrowWorth ==
    ASSUME NEW v \in Vaults, NEW n \in Nat,
           NEW r \in vault_borrow(v, n) \cup vault_repay_atoms(v, n) \cup vault_repay_shares(v, n)
    PROVE  Worth(r.shares, r.atoms, v.borrow.atoms_per_share)
  <1>1. PICK q \in deposit_atoms(v.borrow, n) \cup withdraw_atoms(v.borrow, n)
                     \cup withdraw_shares_up(v.borrow, n) :
            r.shares = q.shares /\ r.atoms = q.atoms
    BY DEF vault_borrow, vault_repay_atoms, vault_repay_shares, OnBorrow
  <1> QED BY <1>1, VaultTypes, MovedWorth

LEMMA RepayCappedWorth ==
    ASSUME NEW v \in Vaults, NEW atoms \in Nat, NEW max_shares \in Nat,
           NEW r \in vault_repay_atoms_capped(v, atoms, max_shares)
    PROVE  Worth(r.shares, r.atoms, v.borrow.atoms_per_share) /\ r.atoms <= atoms
  <1>1. PICK q \in withdraw_atoms_capped(v.borrow, atoms, max_shares) :
            r.shares = q.shares /\ r.atoms = q.atoms
    BY DEF vault_repay_atoms_capped, OnBorrow
  <1> QED BY <1>1, VaultTypes, CappedWorth

\* Fee shares are redeemed for no less than their atoms rounded down.
LEMMA RedeemWorth ==
    ASSUME NEW v \in Vaults, NEW shares \in Nat, NEW r \in vault_withdraw_shares(v, shares)
    PROVE  shares * v.supply.atoms_per_share < (r.atoms + 1) * (UOne * UOne)
  <1>1. PICK a \in shares_to_atoms_down(v.supply, shares) : r.atoms = a
    BY DEF vault_withdraw_shares, OnSupply, withdraw_shares_down
  <1> QED BY <1>1, VaultTypes, AtomsDownWorth

LEMMA VaultRedeemProtocol ==
    ASSUME NEW v \in Vaults, NEW r \in vault_redeem_protocol_fees(v)
    PROVE  /\ r.atoms \in Nat /\ SupplyMoved(v, r.vault, -v.protocol_fee_shares)
           /\ r.vault.protocol_fee_shares = 0
           /\ r.vault.curator_fee_shares = v.curator_fee_shares
           /\ r.vault.last_update = v.last_update
           /\ v.protocol_fee_shares * v.supply.atoms_per_share < (r.atoms + 1) * (UOne * UOne)
  <1> DEFINE w == [v EXCEPT !.protocol_fee_shares = 0]
  <1>1. /\ w \in Vaults /\ w.supply = v.supply /\ w.borrow = v.borrow
        /\ w.protocol_fee_shares = 0 /\ w.curator_fee_shares = v.curator_fee_shares
        /\ w.last_update = v.last_update
    BY DEF Vaults
  <1> HIDE DEF w
  <1>2. r \in vault_withdraw_shares(w, v.protocol_fee_shares)
    BY DEF vault_redeem_protocol_fees, w
  <1>3. r.atoms \in Nat /\ SupplyMoved(w, r.vault, -v.protocol_fee_shares) /\ SameFeesAndClock(w, r.vault)
    BY <1>1, <1>2, VaultTypes, VaultWithdrawShares
  <1>4. v.protocol_fee_shares * w.supply.atoms_per_share < (r.atoms + 1) * (UOne * UOne)
    BY <1>1, <1>2, VaultTypes, RedeemWorth
  <1> QED BY <1>1, <1>3, <1>4 DEF SupplyMoved, SameFeesAndClock

LEMMA VaultRedeemCurator ==
    ASSUME NEW v \in Vaults, NEW r \in vault_redeem_curator_fees(v)
    PROVE  /\ r.atoms \in Nat /\ SupplyMoved(v, r.vault, -v.curator_fee_shares)
           /\ r.vault.curator_fee_shares = 0
           /\ r.vault.protocol_fee_shares = v.protocol_fee_shares
           /\ r.vault.last_update = v.last_update
           /\ v.curator_fee_shares * v.supply.atoms_per_share < (r.atoms + 1) * (UOne * UOne)
  <1> DEFINE w == [v EXCEPT !.curator_fee_shares = 0]
  <1>1. /\ w \in Vaults /\ w.supply = v.supply /\ w.borrow = v.borrow
        /\ w.curator_fee_shares = 0 /\ w.protocol_fee_shares = v.protocol_fee_shares
        /\ w.last_update = v.last_update
    BY DEF Vaults
  <1> HIDE DEF w
  <1>2. r \in vault_withdraw_shares(w, v.curator_fee_shares)
    BY DEF vault_redeem_curator_fees, w
  <1>3. r.atoms \in Nat /\ SupplyMoved(w, r.vault, -v.curator_fee_shares) /\ SameFeesAndClock(w, r.vault)
    BY <1>1, <1>2, VaultTypes, VaultWithdrawShares
  <1>4. v.curator_fee_shares * w.supply.atoms_per_share < (r.atoms + 1) * (UOne * UOne)
    BY <1>1, <1>2, VaultTypes, RedeemWorth
  <1> QED BY <1>1, <1>3, <1>4 DEF SupplyMoved, SameFeesAndClock

\* Donations and losses change the supply price only.
SupplyRepriced(v, w) ==
    /\ w \in Vaults
    /\ w.borrow = v.borrow /\ SameFeesAndClock(v, w)
    /\ w.supply.total_shares = v.supply.total_shares

LEMMA Repriced ==
    ASSUME NEW t \in Trackers, NEW atoms \in Nat,
           NEW r \in donate_atoms(t, atoms) \cup socialize_loss_atoms(t, atoms)
    PROVE  /\ r \in Trackers /\ r.total_shares = t.total_shares
           /\ r \in donate_atoms(t, atoms) => t.atoms_per_share <= r.atoms_per_share
  <1>1. u_from_u64(atoms) \in Nat /\ t.total_shares \in Nat /\ t.atoms_per_share \in Nat
    BY FixedPointAssumption DEF u_from_u64, Trackers
  <1>2. \A d \in u_safe_div(u_from_u64(atoms), t.total_shares) : d \in Nat
    BY <1>1, SafeDivIsNat
  <1>3. CASE r \in donate_atoms(t, atoms)
    <2>1. PICK d \in u_safe_div(u_from_u64(atoms), t.total_shares) :
               \E p \in u_safe_add(t.atoms_per_share, d) : r = WithPrice(t, p)
      BY <1>3 DEF donate_atoms
    <2>2. \A p \in u_safe_add(t.atoms_per_share, d) : p \in Nat /\ t.atoms_per_share <= p
      BY <1>1, <1>2, <2>1, CheckedUIsNat DEF u_safe_add
    <2> QED BY <2>1, <2>2 DEF WithPrice, Trackers
  <1>4. CASE r \in socialize_loss_atoms(t, atoms) \ donate_atoms(t, atoms)
    <2>1. PICK d \in u_safe_div(u_from_u64(atoms), t.total_shares) :
               \E p \in u_safe_sub(t.atoms_per_share, d) : r = WithPrice(t, p)
      BY <1>4 DEF socialize_loss_atoms
    <2>2. \A p \in u_safe_sub(t.atoms_per_share, d) : p \in Nat
      BY <1>1, <1>2, <2>1, CheckedUIsNat DEF u_safe_sub
    <2> QED BY <1>4, <2>1, <2>2 DEF WithPrice, Trackers
  <1> QED BY <1>3, <1>4

LEMMA VaultDonate ==
    ASSUME NEW v \in Vaults, NEW atoms \in Nat, NEW w \in vault_donate_supply(v, atoms)
    PROVE  SupplyRepriced(v, w) /\ v.supply.atoms_per_share <= w.supply.atoms_per_share
  <1>1. PICK t \in donate_atoms(v.supply, atoms) : w = [v EXCEPT !.supply = t]
    BY DEF vault_donate_supply
  <1>2. /\ t \in Trackers /\ t.total_shares = v.supply.total_shares
        /\ v.supply.atoms_per_share <= t.atoms_per_share
    BY VaultTypes, Repriced
  <1> QED BY <1>1, <1>2 DEF SupplyRepriced, SameFeesAndClock, Vaults

LEMMA VaultSocialize ==
    ASSUME NEW v \in Vaults, NEW debt_shares \in Nat,
           NEW r \in vault_socialize_loss(v, debt_shares)
    PROVE  /\ r.vault \in Vaults /\ SameFeesAndClock(v, r.vault)
           /\ r.vault.supply.total_shares = v.supply.total_shares
           /\ r.vault.borrow.atoms_per_share = v.borrow.atoms_per_share
           /\ r.vault.borrow.total_shares = v.borrow.total_shares - debt_shares
  <1>1. PICK q \in vault_repay_shares(v, debt_shares) :
            \E t \in socialize_loss_atoms(v.supply, q.atoms) : r = [q EXCEPT !.vault.supply = t]
    BY DEF vault_socialize_loss
  <1>2. PICK t \in socialize_loss_atoms(v.supply, q.atoms) : r = [q EXCEPT !.vault.supply = t]
    BY <1>1
  <1>3. q.atoms \in Nat /\ BorrowMoved(v, q.vault, -debt_shares)
    BY VaultRepayShares
  <1>4. t \in Trackers /\ t.total_shares = v.supply.total_shares
    BY <1>3, VaultTypes, Repriced
  <1>5. r.vault = [q.vault EXCEPT !.supply = t]
    BY <1>2 DEF vault_repay_shares, OnBorrow
  <1>6. q.vault \in Vaults /\ SameFeesAndClock(v, q.vault)
        /\ q.vault.borrow.atoms_per_share = v.borrow.atoms_per_share
        /\ q.vault.borrow.total_shares = v.borrow.total_shares + -debt_shares
    BY <1>3 DEF BorrowMoved
  <1>7. v.borrow.total_shares + -debt_shares = v.borrow.total_shares - debt_shares
    BY VaultTypes
  <1>8. /\ r.vault \in Vaults /\ r.vault.supply = t /\ r.vault.borrow = q.vault.borrow
        /\ SameFeesAndClock(v, r.vault)
    BY <1>4, <1>5, <1>6 DEF Vaults, SameFeesAndClock
  <1> QED BY <1>4, <1>6, <1>7, <1>8

-----------------------------------------------------------------------------
(***************************************************************************)
(* The whole accrual.                                                      *)
(***************************************************************************)
LEMMA UtilisationIsNat ==
    ASSUME NEW v \in Vaults, NEW u \in utilisation_rate(v)
    PROVE  u \in Nat
  <1>1. PICK s \in total_supply(v), b \in total_borrow(v) :
            u \in IF b = 0 THEN {0} ELSE i_safe_div(b * IOne, s * IOne)
    BY DEF utilisation_rate
  <1>2. s \in Nat /\ b \in Nat
    BY VaultTypes, AtomsDownAreNat, AtomsUpAreNat DEF total_supply, total_borrow
  <1>3. s * IOne \in Nat /\ b * IOne \in Nat
    BY <1>2, FixedPointAssumption
  <1>4. (b * IOne) * IOne \in Nat
    BY <1>3, FixedPointAssumption
  <1>5. CASE b = 0
    BY <1>1, <1>5
  <1>6. CASE b # 0
    <2>1. s * IOne # 0 /\ u = ((b * IOne) * IOne) \div (s * IOne)
      BY <1>1, <1>6 DEF i_safe_div
    <2> QED BY <2>1, <1>3, <1>4, DivNat
  <1> QED BY <1>5, <1>6

LEMMA AccrueEffect ==
    ASSUME NEW v \in Vaults, NEW now_ \in Nat, NEW rate \in Nat, NEW fee \in Nat,
           NEW protocol_share \in Nat, NEW w \in accrue(v, now_, rate, fee, protocol_share)
    PROVE  /\ Accrued(v, w) /\ w.last_update = now_
           /\ fee <= UOne => v.supply.atoms_per_share < w.supply.atoms_per_share + LowBits
  <1>1. PICK u \in utilisation_rate(v) :
          \E borrow_ \in apply_interest_rate(v.borrow, rate) :
            \E r \in apply_interest_rate_with_fee(v.supply, i_mul(rate, u), fee) :
              \E protocol \in bps_from_fixed_point(protocol_share, r.shares) :
                \E d \in u_safe_sub(r.shares, protocol) :
                  \E p \in u_safe_add(v.protocol_fee_shares, protocol),
                     c \in u_safe_add(v.curator_fee_shares, d) :
                    w = [supply |-> r.tracker, borrow |-> borrow_,
                         protocol_fee_shares |-> p, curator_fee_shares |-> c,
                         last_update |-> now_]
    BY SMTT(20) DEF accrue
  <1>2. PICK borrow_ \in apply_interest_rate(v.borrow, rate),
             r \in apply_interest_rate_with_fee(v.supply, i_mul(rate, u), fee) :
              \E protocol \in bps_from_fixed_point(protocol_share, r.shares) :
                \E d \in u_safe_sub(r.shares, protocol) :
                  \E p \in u_safe_add(v.protocol_fee_shares, protocol),
                     c \in u_safe_add(v.curator_fee_shares, d) :
                    w = [supply |-> r.tracker, borrow |-> borrow_,
                         protocol_fee_shares |-> p, curator_fee_shares |-> c,
                         last_update |-> now_]
    BY <1>1, SMTT(20)
  <1>3. PICK protocol \in bps_from_fixed_point(protocol_share, r.shares) :
              \E d \in u_safe_sub(r.shares, protocol) :
                \E p \in u_safe_add(v.protocol_fee_shares, protocol),
                   c \in u_safe_add(v.curator_fee_shares, d) :
                    w = [supply |-> r.tracker, borrow |-> borrow_,
                         protocol_fee_shares |-> p, curator_fee_shares |-> c,
                         last_update |-> now_]
    BY <1>2
  <1>4. PICK d \in u_safe_sub(r.shares, protocol),
             p \in u_safe_add(v.protocol_fee_shares, protocol) :
                \E c \in u_safe_add(v.curator_fee_shares, d) :
                    w = [supply |-> r.tracker, borrow |-> borrow_,
                         protocol_fee_shares |-> p, curator_fee_shares |-> c,
                         last_update |-> now_]
    BY <1>3
  <1>5. PICK c \in u_safe_add(v.curator_fee_shares, d) :
                    w = [supply |-> r.tracker, borrow |-> borrow_,
                         protocol_fee_shares |-> p, curator_fee_shares |-> c,
                         last_update |-> now_]
    BY <1>4
  <1>6. i_mul(rate, u) \in Nat
    <2>1. rate * u \in Nat
      BY UtilisationIsNat
    <2> QED BY <2>1, DivNat, FixedPointAssumption DEF i_mul
  <1>7. /\ r.tracker \in Trackers /\ r.shares \in Nat
        /\ r.tracker.total_shares = v.supply.total_shares + r.shares
        /\ fee <= UOne => v.supply.atoms_per_share < r.tracker.atoms_per_share + LowBits
    BY <1>6, VaultTypes, AccruedWithFee
  <1>8. protocol \in Nat
    <2>1. r.shares * protocol_share \in Int
      BY <1>7
    <2>2. PICK y \in CheckedU(r.shares * protocol_share) : protocol = y \div OneInBps
      BY DEF bps_from_fixed_point
    <2> QED BY <2>1, <2>2, CheckedUIsNat, DivNat, OneInBpsAssumption
  <1>9. d = r.shares - protocol /\ d \in Nat
    BY <1>7, <1>8, CheckedUIsNat, SMTT(20) DEF u_safe_sub
  <1>10. /\ p = v.protocol_fee_shares + protocol /\ p \in Nat
         /\ c = v.curator_fee_shares + d /\ c \in Nat
    BY <1>4, <1>8, <1>9, VaultTypes, CheckedUIsNat, SMTT(20) DEF u_safe_add
  <1>11. /\ borrow_ \in Trackers /\ borrow_.total_shares = v.borrow.total_shares
         /\ Aligned(v.borrow.atoms_per_share) =>
               /\ Aligned(borrow_.atoms_per_share)
               /\ v.borrow.atoms_per_share <= borrow_.atoms_per_share
    BY VaultTypes, AccruedPrice, SMTT(20)
  <1>12. /\ w \in Vaults /\ w.supply = r.tracker /\ w.borrow = borrow_
         /\ w.protocol_fee_shares = p /\ w.curator_fee_shares = c /\ w.last_update = now_
    BY <1>5, <1>7, <1>10, <1>11, SMTT(20) DEF Vaults
  <1>13. w.supply.total_shares + FeeShareSum(v) = v.supply.total_shares + FeeShareSum(w)
    BY <1>7, <1>8, <1>9, <1>10, <1>12, VaultTypes, SMTT(20) DEF FeeShareSum
  <1>14. /\ v.protocol_fee_shares <= w.protocol_fee_shares
         /\ v.curator_fee_shares <= w.curator_fee_shares
    BY <1>8, <1>9, <1>10, <1>12, VaultTypes, SMTT(20)
  <1> QED BY <1>7, <1>11, <1>12, <1>13, <1>14, SMTT(20) DEF Accrued

LEMMA SyncClock ==
    ASSUME NEW v \in Vaults, NEW now_ \in Nat, NEW rate \in Nat, NEW fee \in Nat,
           NEW protocol_share \in Nat, NEW w \in sync_clock(v, now_, rate, fee, protocol_share)
    PROVE  /\ Accrued(v, w) /\ now_ <= w.last_update
           /\ fee <= UOne => v.supply.atoms_per_share < w.supply.atoms_per_share + LowBits
  <1>1. CASE now_ > v.last_update
    BY <1>1, AccrueEffect DEF sync_clock
  <1>2. CASE ~(now_ > v.last_update)
    BY <1>2, VaultTypes, LowBitsIsPositive DEF sync_clock, Accrued, FeeShareSum
  <1> QED BY <1>1, <1>2

-----------------------------------------------------------------------------
(***************************************************************************)
(* What shares owe, rounded up, and what atoms are worth at a quote.       *)
(***************************************************************************)
LEMMA QuotientRange ==
    ASSUME NEW a \in Nat, NEW b \in Nat \ {0}
    PROVE  a \div b \in Nat /\ (a \div b) * b <= a /\ a < ((a \div b) + 1) * b
  OBVIOUS

LEMMA ProductMonotone ==
    ASSUME NEW a \in Nat, NEW b \in Nat, a <= b, NEW c \in Nat
    PROVE  a * c <= b * c /\ a * c \in Nat /\ b * c \in Nat
  <1>1. PICK k \in Nat : b = a + k
    <2>1. b - a \in Nat /\ b = a + (b - a)
      OBVIOUS
    <2> QED BY <2>1
  <1>2. b * c = a * c + k * c /\ k * c \in Nat /\ a * c \in Nat
    BY <1>1
  <1> QED BY <1>2

LEMMA QuotientMonotone ==
    ASSUME NEW a \in Nat, NEW b \in Nat, a <= b, NEW c \in Nat \ {0}, NEW d \in Nat \ {0}, d <= c
    PROVE  a \div c <= b \div d
  <1> DEFINE p == a \div c
             q == b \div d
  <1>1. p \in Nat /\ p * c <= a /\ q \in Nat /\ b < (q + 1) * d
    BY QuotientRange
  <1> HIDE DEF p, q
  <1>2. p * d <= p * c
    <2>1. d * p <= c * p
      BY <1>1, ProductMonotone
    <2>2. d * p = p * d /\ c * p = p * c
      BY <1>1
    <2> QED BY <2>1, <2>2
  <1>3. ASSUME q < p PROVE FALSE
    <2>1. q + 1 <= p /\ q + 1 \in Nat
      BY <1>1, <1>3
    <2>2. (q + 1) * d <= p * d /\ (q + 1) * d \in Nat /\ p * d \in Nat
      BY <1>1, <2>1, ProductMonotone
    <2>3. p * c \in Nat
      BY <1>1
    <2> QED BY <1>1, <1>2, <2>2, <2>3
  <1>4. p <= q
    BY <1>1, <1>3
  <1> QED BY <1>4 DEF p, q

LEMMA RoundedUpIsNat ==
    ASSUME NEW x \in Nat
    PROVE  u_rounded_up(x) \in Nat /\ (x # 0 => u_rounded_up(x) # 0)
  <1>1. /\ x \div UOne \in Nat /\ x % UOne \in Nat
        /\ x = UOne * (x \div UOne) + (x % UOne)
    BY FixedPointAssumption
  <1>2. x # 0 /\ x % UOne = 0 => x \div UOne # 0
    BY <1>1, FixedPointAssumption
  <1> QED BY <1>1, <1>2, FixedPointAssumption DEF u_rounded_up

LEMMA RoundedUpMonotone ==
    ASSUME NEW x \in Nat, NEW y \in Nat, x <= y
    PROVE  u_rounded_up(x) <= u_rounded_up(y)
  <1> DEFINE p == x \div UOne
             q == y \div UOne
  <1>1. /\ p \in Nat /\ q \in Nat /\ x % UOne \in Nat /\ y % UOne \in Nat
        /\ x = UOne * p + (x % UOne) /\ y = UOne * q + (y % UOne)
    BY FixedPointAssumption
  <1>2. p <= q
    BY FixedPointAssumption, QuotientMonotone
  <1>3. p = q /\ y % UOne = 0 => x % UOne = 0
    <2> HIDE DEF p, q
    <2> QED BY <1>1, FixedPointAssumption
  <1>4. /\ u_rounded_up(x) = IF x % UOne = 0 \/ p = MaxU64 THEN p ELSE p + 1
        /\ u_rounded_up(y) = IF y % UOne = 0 \/ q = MaxU64 THEN q ELSE q + 1
    BY DEF u_rounded_up
  <1> HIDE DEF p, q
  <1> QED BY <1>1, <1>2, <1>3, <1>4

\* What s shares of the debt are, rounded up: at least an atom if there are any,
\* and more for more shares.
LEMMA AtomsOwed ==
    ASSUME NEW t \in Trackers, NEW s \in Nat, NEW b \in shares_to_atoms_up(t, s)
    PROVE  /\ b \in Nat
           /\ b = u_rounded_up((s * t.atoms_per_share) \div UOne)
           /\ s = 0 => b = 0
           /\ s # 0 /\ UOne <= t.atoms_per_share => b # 0
  <1> DEFINE p == t.atoms_per_share
             x == (s * p) \div UOne
  <1>1. p \in Nat /\ s * p \in Nat /\ UOne \in Nat \ {0}
    BY FixedPointAssumption DEF Trackers
  <1>2. x \in Nat
    BY <1>1, QuotientRange
  <1>3. b = u_rounded_up(x)
    BY DEF shares_to_atoms_up, u_safe_mul, CheckedU
  <1>4. s = 0 => b = 0
    <2>1. s = 0 => x = 0
      BY <1>1
    <2>2. u_rounded_up(0) = 0
      BY FixedPointAssumption DEF u_rounded_up
    <2> QED BY <1>3, <2>1, <2>2
  <1>5. ASSUME s # 0, UOne <= p PROVE x # 0
    <2>1. 1 * p <= s * p
      BY <1>1, <1>5, ProductMonotone
    <2>2. UOne \div UOne <= x
      BY <1>1, <1>5, <2>1, QuotientMonotone
    <2>3. UOne \div UOne = 1
      BY <1>1
    <2> QED BY <1>2, <2>2, <2>3
  <1> HIDE DEF x
  <1> QED BY <1>2, <1>3, <1>4, <1>5, RoundedUpIsNat DEF x

LEMMA LessIsOwed ==
    ASSUME NEW t \in Trackers, NEW u \in Trackers, u.atoms_per_share = t.atoms_per_share,
           NEW s \in Nat, NEW n \in Nat, n <= s,
           NEW b \in shares_to_atoms_up(t, s), NEW c \in shares_to_atoms_up(u, n)
    PROVE  c <= b
  <1> DEFINE p == t.atoms_per_share
  <1>1. p \in Nat /\ UOne \in Nat \ {0}
    BY FixedPointAssumption DEF Trackers
  <1>2. n * p <= s * p /\ n * p \in Nat /\ s * p \in Nat
    BY <1>1, ProductMonotone
  <1>3. (n * p) \div UOne <= (s * p) \div UOne
    BY <1>1, <1>2, QuotientMonotone
  <1>4. (n * p) \div UOne \in Nat /\ (s * p) \div UOne \in Nat
    BY <1>1, <1>2, QuotientRange
  <1>5. u_rounded_up((n * p) \div UOne) <= u_rounded_up((s * p) \div UOne)
    BY <1>3, <1>4, RoundedUpMonotone
  <1>6. b = u_rounded_up((s * p) \div UOne) /\ c = u_rounded_up((n * p) \div UOne)
    BY AtomsOwed
  <1> QED BY <1>5, <1>6

\* A value is zero for no atoms, positive for some and monotone.
LEMMA ValueOf ==
    ASSUME NEW rate \in Nat \ {0}, NEW unit \in Nat \ {0}, unit <= rate, NEW n \in Nat
    PROVE  /\ (rate * n) \div unit \in Nat
           /\ n = 0 => (rate * n) \div unit = 0
           /\ n # 0 => (rate * n) \div unit # 0
           /\ \A k \in Nat : k <= n => (rate * k) \div unit <= (rate * n) \div unit
  <1>1. rate * n \in Nat /\ rate * n = n * rate
    OBVIOUS
  <1>2. (rate * n) \div unit \in Nat
    BY <1>1, QuotientRange
  <1>3. n = 0 => (rate * n) \div unit = 0
    OBVIOUS
  <1>4. ASSUME n # 0 PROVE (rate * n) \div unit # 0
    <2>1. 1 * rate <= n * rate
      BY <1>4, ProductMonotone
    <2>2. unit <= rate * n
      BY <1>1, <2>1
    <2>3. unit \div unit <= (rate * n) \div unit /\ unit \div unit = 1
      BY <1>1, <2>2, QuotientMonotone
    <2> QED BY <1>2, <2>3
  <1>5. ASSUME NEW k \in Nat, k <= n PROVE (rate * k) \div unit <= (rate * n) \div unit
    <2>1. k * rate <= n * rate /\ k * rate \in Nat /\ rate * k = k * rate
      BY <1>5, ProductMonotone
    <2> QED BY <1>1, <2>1, QuotientMonotone
  <1> QED BY <1>2, <1>3, <1>4, <1>5

-----------------------------------------------------------------------------
(***************************************************************************)
(* The health of a position at valid quotes.                               *)
(***************************************************************************)
LEMMA PositionAtoms ==
    ASSUME NEW pos \in BorrowPositions
    PROVE  pos.shares \in Nat /\ pos.collateral \in Nat /\ pos.swept \in Nat
  BY DEF BorrowPositions

LEMMA Values ==
    ASSUME NEW o, FairQuotes(o), NEW n \in Nat
    PROVE  /\ DebtValue(o, n) \in Nat /\ (n = 0 <=> DebtValue(o, n) = 0)
           /\ PledgeValue(o, n) \in Nat /\ (n = 0 <=> PledgeValue(o, n) = 0)
           /\ \A k \in Nat : k <= n => DebtValue(o, k) <= DebtValue(o, n) /\ PledgeValue(o, k) <= PledgeValue(o, n)
  <1>1. SupplyUnit \in Nat \ {0} /\ CollateralUnit \in Nat \ {0}
    BY MarketAssumption
  <1>2. /\ DebtValue(o, n) \in Nat /\ (n = 0 <=> DebtValue(o, n) = 0)
        /\ \A k \in Nat : k <= n => DebtValue(o, k) <= DebtValue(o, n)
    BY <1>1, ValueOf, Zenon DEF FairQuotes, DebtValue, borrow_value
  <1>3. /\ PledgeValue(o, n) \in Nat /\ (n = 0 <=> PledgeValue(o, n) = 0)
        /\ \A k \in Nat : k <= n => PledgeValue(o, k) <= PledgeValue(o, n)
    BY <1>1, ValueOf, Zenon DEF FairQuotes, PledgeValue, collateral_value
  <1> QED BY <1>2, <1>3

LEMMA HealthIs ==
    ASSUME NEW o, NEW m, NEW s, NEW c, NEW h \in health_of(m, s, c, o)
    PROVE  \E b \in shares_to_atoms_up(m.vault.borrow, s) : Rated(o, b, c, h.ltv)
  BY DEF health_of, Rated, DebtValue, PledgeValue, i_safe_div

LEMMA HealthHas ==
    ASSUME NEW o, NEW m, NEW s, NEW c, NEW b \in shares_to_atoms_up(m.vault.borrow, s), NEW ltv, Rated(o, b, c, ltv)
    PROVE  \E h \in health_of(m, s, c, o) : h.ltv = ltv
  <1>1. [ltv |-> ltv, borrowed |-> b] \in health_of(m, s, c, o)
    BY Zenon DEF health_of, Rated, DebtValue, PledgeValue, i_safe_div
  <1> QED BY <1>1

LEMMA OneDebt ==
    ASSUME NEW t, NEW s, NEW b \in shares_to_atoms_up(t, s), NEW c \in shares_to_atoms_up(t, s)
    PROVE  b = c
  BY DEF shares_to_atoms_up, u_safe_mul, CheckedU

LEMMA OneLtv ==
    ASSUME NEW o, NEW m, NEW pos, NEW h \in borrow_position_health(m, pos, o), NEW ltv,
           LtvNotAbove(m, pos, o, ltv)
    PROVE  h.ltv <= ltv
  <1>1. PICK k \in borrow_position_health(m, pos, o) : k.ltv <= ltv
    BY DEF LtvNotAbove
  <1>2. PICK b \in shares_to_atoms_up(m.vault.borrow, pos.shares) : Rated(o, b, pos.collateral, h.ltv)
    BY HealthIs DEF borrow_position_health
  <1>3. PICK c \in shares_to_atoms_up(m.vault.borrow, pos.shares) : Rated(o, c, pos.collateral, k.ltv)
    BY HealthIs DEF borrow_position_health
  <1>4. b = c
    BY OneDebt
  <1> QED BY <1>1, <1>2, <1>3, <1>4 DEF Rated

LEMMA LtvIsNat ==
    ASSUME NEW o, FairQuotes(o), NEW m \in Markets, NEW pos \in BorrowPositions,
           NEW h \in borrow_position_health(m, pos, o)
    PROVE  h.ltv \in Nat
  <1>1. m.vault.borrow \in Trackers /\ pos.shares \in Nat /\ pos.collateral \in Nat
    BY DEF Markets, Vaults, BorrowPositions
  <1>2. PICK b \in shares_to_atoms_up(m.vault.borrow, pos.shares) : Rated(o, b, pos.collateral, h.ltv)
    BY HealthIs DEF borrow_position_health
  <1>3. b \in Nat
    BY <1>1, <1>2, AtomsOwed
  <1>4. DebtValue(o, b) \in Nat /\ PledgeValue(o, pos.collateral) \in Nat
    BY <1>1, <1>3, Values
  <1>5. DebtValue(o, b) * IOne \in Nat
    BY <1>4, FixedPointAssumption
  <1> QED BY <1>2, <1>4, <1>5, QuotientRange DEF Rated

\* Health is computed only of debt that has collateral.
LEMMA RatedIsBacked ==
    ASSUME NEW o, FairQuotes(o), NEW m \in Markets, UOne <= m.vault.borrow.atoms_per_share,
           NEW pos \in BorrowPositions, NEW ltv, LtvNotAbove(m, pos, o, ltv), pos.shares # 0
    PROVE  pos.collateral # 0
  <1>1. PICK h \in borrow_position_health(m, pos, o) : h.ltv <= ltv
    BY DEF LtvNotAbove
  <1>2. PICK b \in shares_to_atoms_up(m.vault.borrow, pos.shares) : Rated(o, b, pos.collateral, h.ltv)
    BY <1>1, HealthIs DEF borrow_position_health
  <1>3. m.vault.borrow \in Trackers /\ pos.shares \in Nat /\ pos.collateral \in Nat
    BY DEF Markets, Vaults, BorrowPositions
  <1>4. b \in Nat /\ b # 0
    BY <1>3, AtomsOwed, SMTT(20)
  <1>5. DebtValue(o, b) # 0
    BY <1>4, Values, SMTT(20)
  <1> QED BY <1>2, <1>3, <1>5, Values DEF Rated

LEMMA SameHealth ==
    ASSUME NEW m, NEW n, n.vault.borrow.atoms_per_share = m.vault.borrow.atoms_per_share, NEW pos, NEW o
    PROVE  borrow_position_health(n, pos, o) = borrow_position_health(m, pos, o)
  BY DEF borrow_position_health, health_of, shares_to_atoms_up

\* Less debt on no less collateral is no less healthy.
LEMMA EasedHealth ==
    ASSUME NEW o, FairQuotes(o), NEW m \in Markets, NEW n \in Markets,
           n.vault.borrow.atoms_per_share = m.vault.borrow.atoms_per_share,
           NEW pos \in BorrowPositions, NEW new \in BorrowPositions,
           new.shares <= pos.shares, pos.collateral <= new.collateral,
           pos.shares # 0 => pos.collateral # 0,
           shares_to_atoms_up(m.vault.borrow, pos.shares) # {},
           NEW h \in borrow_position_health(n, new, o), h.ltv # 0
    PROVE  \E k \in borrow_position_health(m, pos, o) :
               h.ltv \in Nat /\ k.ltv \in Nat /\ h.ltv <= k.ltv
  <1>1. /\ m.vault.borrow \in Trackers /\ n.vault.borrow \in Trackers
        /\ pos.shares \in Nat /\ new.shares \in Nat /\ pos.collateral \in Nat /\ new.collateral \in Nat
    BY PositionAtoms DEF Markets, Vaults
  <1>2. PICK c \in shares_to_atoms_up(n.vault.borrow, new.shares) : Rated(o, c, new.collateral, h.ltv)
    BY HealthIs DEF borrow_position_health
  <1>3. PICK b : b \in shares_to_atoms_up(m.vault.borrow, pos.shares)
    OBVIOUS
  <1>4. b \in Nat /\ c \in Nat /\ c <= b /\ (pos.shares = 0 => b = 0)
    BY <1>1, <1>2, <1>3, AtomsOwed, LessIsOwed
  <1>5. /\ DebtValue(o, c) # 0 /\ PledgeValue(o, new.collateral) # 0
        /\ h.ltv = (DebtValue(o, c) * IOne) \div PledgeValue(o, new.collateral)
    BY <1>2 DEF Rated
  <1>6. /\ DebtValue(o, c) \in Nat /\ DebtValue(o, b) \in Nat /\ DebtValue(o, c) <= DebtValue(o, b)
        /\ c # 0
    BY <1>4, <1>5, Values
  <1>7. pos.collateral # 0
    BY <1>1, <1>4, <1>6, SMTT(20)
  <1>8. /\ PledgeValue(o, pos.collateral) \in Nat \ {0} /\ PledgeValue(o, new.collateral) \in Nat \ {0}
        /\ PledgeValue(o, pos.collateral) <= PledgeValue(o, new.collateral)
    BY <1>1, <1>5, <1>7, Values
  <1> DEFINE ltv == (DebtValue(o, b) * IOne) \div PledgeValue(o, pos.collateral)
  <1>9. /\ DebtValue(o, c) * IOne <= DebtValue(o, b) * IOne
        /\ DebtValue(o, c) * IOne \in Nat /\ DebtValue(o, b) * IOne \in Nat
    BY <1>6, FixedPointAssumption, ProductMonotone
  <1>10. h.ltv \in Nat /\ ltv \in Nat /\ h.ltv <= ltv
    <2>1. h.ltv \in Nat /\ ltv \in Nat
      BY <1>5, <1>8, <1>9, QuotientRange
    <2>2. h.ltv <= ltv
      BY <1>5, <1>8, <1>9, QuotientMonotone, Zenon
    <2> QED BY <2>1, <2>2
  <1>11. Rated(o, b, pos.collateral, ltv)
    BY <1>5, <1>6, <1>8 DEF Rated
  <1> HIDE DEF ltv
  <1>12. \E k \in borrow_position_health(m, pos, o) : k.ltv = ltv
    BY <1>3, <1>11, HealthHas DEF borrow_position_health
  <1> QED BY <1>10, <1>12
=============================================================================
