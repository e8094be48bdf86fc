--------------------------- MODULE DistributionNonce ---------------------------
(***************************************************************************)
(* DistributionNonce of Btc08.c: the nonce range of a work is split over    *)
(* the chips of the chain in proportion to the cores that passed BIST.      *)
(* The two loops of the function are two actions, so that what they         *)
(* establish is an inductive invariant.  Chips are numbered from 0, as the  *)
(* arrays of the handle are.  The arithmetic is that of uint32_t, modulo    *)
(* Modulus.                                                                 *)
(***************************************************************************)
EXTENDS Integers

CONSTANTS
  Modulus,    \* 2^32, the nonces there are
  MaxChips,   \* MAX_CHIPS, size of the arrays of the handle
  MaxCores    \* the most cores a chip reports

ASSUME NonceAssumption ==
  /\ Modulus \in Nat \ {0}
  /\ MaxChips \in Nat \ {0}
  /\ MaxCores \in Nat

Chips     == 0 .. MaxChips - 1
Nonces    == 0 .. Modulus - 1
Uint32(n) == n % Modulus

VARIABLES
  pc,            \* where the function is
  numChips, numCores, fault,   \* the fields of the handle it reads
  start, end,    \* its arguments
  ii,            \* the loop counter
  totalCores,
  noncePerCore,
  startNonce,    \* first nonce not given away yet
  range,         \* handle->startNonce and endNonce of each chip
  before         \* history: totalCores when the first loop reached each chip

input     == <<numChips, numCores, fault, start, end>>
nonceVars == <<pc, input, ii, totalCores, noncePerCore, startNonce, range, before>>

\* A fault chip is taken to be the first one: its nonces go to the others.
Skipped(i) == fault /\ i = 0

NonceInit ==
  /\ pc = "COUNT"
  /\ numChips \in 0 .. MaxChips
  /\ numCores \in [Chips -> 0 .. MaxCores]
  /\ fault \in BOOLEAN
  /\ start \in Nonces /\ end \in Nonces /\ start <= end
  /\ ii = 0
  /\ totalCores = 0 /\ noncePerCore = 0
  /\ startNonce = start
  /\ range = [i \in Chips |-> [first |-> 0, last |-> 0]]
  /\ before = [i \in 0 .. MaxChips |-> 0]

\* Plausible slip: the loop visits one chip too many.  Used to test NonceTypeOK.
CountPastEnd ==
  /\ pc = "COUNT" /\ ii <= numChips
  /\ totalCores' = IF Skipped(ii) THEN totalCores ELSE totalCores + numCores[ii]
  /\ before' = [before EXCEPT ![ii + 1] = totalCores']
  /\ ii' = ii + 1
  /\ UNCHANGED <<pc, input, noncePerCore, startNonce, range>>

Count ==
  /\ pc = "COUNT" /\ ii < numChips
  /\ totalCores' = IF Skipped(ii) THEN totalCores ELSE totalCores + numCores[ii]
  /\ before' = [before EXCEPT ![ii + 1] = totalCores']
  /\ ii' = ii + 1
  /\ UNCHANGED <<pc, input, noncePerCore, startNonce, range>>

\* Division by zero is undefined: the process stops, or, as on ARM cores whose
\* UDIV does not trap, the quotient is 0.
Divide ==
  /\ pc = "COUNT" /\ ii = numChips
  /\ IF totalCores = 0
       THEN pc' \in {"CRASHED", "SPLIT"} /\ noncePerCore' = 0
       ELSE pc' = "SPLIT" /\ noncePerCore' = (end - start) \div totalCores
  /\ ii' = 0
  /\ UNCHANGED <<input, totalCores, startNonce, range, before>>

\* Plausible slips of the second loop, used to test the property below.
SplitSharedBoundary ==
  /\ pc = "SPLIT" /\ ii < numChips - 1
  /\ IF Skipped(ii)
       THEN UNCHANGED <<startNonce, range>>
       ELSE LET temp_endnonce == Uint32(startNonce + noncePerCore * numCores[ii])
            IN  /\ range' = [range EXCEPT ![ii] = [first |-> startNonce, last |-> temp_endnonce]]
                /\ startNonce' = temp_endnonce
  /\ ii' = ii + 1
  /\ UNCHANGED <<pc, input, totalCores, noncePerCore, before>>

Split ==
  /\ pc = "SPLIT" /\ ii < numChips - 1
  /\ IF Skipped(ii)
       THEN UNCHANGED <<startNonce, range>>
       ELSE LET temp_endnonce == Uint32(startNonce + noncePerCore * numCores[ii])
            IN  /\ range' = [range EXCEPT ![ii] = [first |-> startNonce, last |-> temp_endnonce]]
                /\ startNonce' = Uint32(temp_endnonce + 1)
  /\ ii' = ii + 1
  /\ UNCHANGED <<pc, input, totalCores, noncePerCore, before>>

\* The last chip gets what is left, whatever its cores.  With no chip at all the
\* first entry of the arrays is written.
Rest ==
  /\ pc = "SPLIT" /\ ii >= numChips - 1
  /\ range' = [range EXCEPT ![ii] = [first |-> startNonce, last |-> end]]
  /\ pc' = "DONE"
  /\ UNCHANGED <<input, ii, totalCores, noncePerCore, startNonce, before>>

NonceNext == Count \/ Divide \/ Split \/ Rest

NonceSpec == NonceInit /\ [][NonceNext]_nonceVars

-----------------------------------------------------------------------------
Ranges == [first : Nonces, last : Nonces]

NonceTypeOK ==
  /\ pc \in {"COUNT", "SPLIT", "DONE", "CRASHED"}
  /\ numChips \in 0 .. MaxChips
  /\ numCores \in [Chips -> 0 .. MaxCores]
  /\ fault \in BOOLEAN
  /\ start \in Nonces /\ end \in Nonces /\ start <= end
  /\ ii \in 0 .. numChips
  /\ totalCores \in Nat /\ noncePerCore \in Nat
  /\ startNonce \in Nonces
  /\ range \in [Chips -> Ranges]
  /\ before \in [0 .. MaxChips -> Nat]

\* Every chip before the last one takes one nonce more than its share.  The
\* last one has to have that many left: what is left over by the division and
\* its own share.
Working(n)  == IF fault /\ n > 0 THEN n - 1 ELSE n
LeftForLast == (end - start) - noncePerCore * before[numChips - 1]
LastHasRoom == Working(numChips - 1) <= LeftForLast

Given(i, n) == ~(fault /\ i = 0 /\ numChips > 1) /\ range[i].first <= n /\ n <= range[i].last

\* The ranges given to the chips neither miss nor repeat a nonce: each nonce of
\* the work lies in the range of exactly one chip, and no other nonce is in any.
Partition ==
  pc = "DONE" /\ numChips > 0 /\ LastHasRoom =>
    \A n \in Nonces :
      /\ n \in start .. end <=> \E i \in 0 .. numChips - 1 : Given(i, n)
      /\ \A i, j \in 0 .. numChips - 1 : Given(i, n) /\ Given(j, n) => i = j
=============================================================================
