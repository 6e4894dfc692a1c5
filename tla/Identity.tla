------------------------------- MODULE Identity -------------------------------
(***************************************************************************)
(* Identity of tsproto-commands (src/utils/tsproto-commands/src/lib.rs):   *)
(* a private key and the hash cash counter sent with clientinit.  The     *)
(* level of a counter is algs::get_hash_cash_level(omega, counter), where  *)
(* omega is the key's public part (key.to_ts(), which may fail).  That     *)
(* hash is not in this tree: the model takes the level of every counter    *)
(* for the current key as an arbitrary function `hcl`, and a new key as a  *)
(* new arbitrary function.  MaxCounter stands for u64::MAX.                *)
(***************************************************************************)
EXTENDS Naturals

CONSTANTS
  MaxCounter,   \* u64::MAX
  MaxLevel,     \* the hash cash levels the functions take
  Targets       \* u8 targets passed to upgrade_level

Counters == 0..MaxCounter
LevelFns == [Counters -> 0..MaxLevel]

VARIABLES
  counter,  \* Identity::counter
  hcl,      \* counter -> get_hash_cash_level(key.to_ts(), counter)
  keyOk     \* key.to_ts() succeeds

ivars == <<counter, hcl, keyOk>>

\* Identity::new(key, counter).
IdInit ==
  counter \in Counters /\ hcl \in LevelFns /\ keyOk \in BOOLEAN

\* set_key: the levels of the counters are those of the new key.
SetKey ==
  /\ hcl' \in LevelFns /\ keyOk' \in BOOLEAN
  /\ UNCHANGED counter

\* set_counter.
SetCounter(c) ==
  /\ counter' = c
  /\ UNCHANGED <<hcl, keyOk>>

\* (mutant) the loop stops at a level one below the target.
RECURSIVE SearchBelow(_, _)
SearchBelow(offset, target) ==
  IF offset < MaxCounter /\ hcl[offset] < target - 1
  THEN SearchBelow(offset + 1, target) ELSE offset

\* The while loop of upgrade_level: count up from the counter while the
\* level is below the target, stopping at u64::MAX.
RECURSIVE Search(_, _)
Search(offset, target) ==
  IF offset < MaxCounter /\ hcl[offset] < target
  THEN Search(offset + 1, target) ELSE offset

\* upgrade_level: key.to_ts()? returns the error with the counter
\* untouched; otherwise the counter becomes where the loop stopped, and
\* the call returns Ok.
UpgradeLevel(target) ==
  /\ counter' = IF keyOk THEN Search(counter, target) ELSE counter
  /\ UNCHANGED <<hcl, keyOk>>

IdNext ==
  \/ SetKey
  \/ \E c \in Counters : SetCounter(c)
  \/ \E t \in Targets : UpgradeLevel(t)

IdSpec == IdInit /\ [][IdNext]_ivars

-----------------------------------------------------------------------------
(* The reference                                                            *)

\* The counters at or after `from`, below u64::MAX, that reach the target.
Reaching(from, target) == {o \in from..(MaxCounter - 1) : hcl[o] >= target}

\* The least of them, or u64::MAX when there is none.
Upgraded(from, target) ==
  IF Reaching(from, target) = {} THEN MaxCounter
  ELSE CHOOSE o \in Reaching(from, target) :
         \A p \in Reaching(from, target) : o <= p

\* upgrade_level moves the counter to the first counter, from the current
\* one on, whose level reaches the target, so the level never needs more
\* work than necessary; a counter that already reaches it stays.  When no
\* counter below u64::MAX reaches the target the call still returns Ok,
\* with the counter at u64::MAX and its level possibly below the target.
UpgradeLevelCorrect ==
  [][\A t \in Targets : keyOk /\ UpgradeLevel(t) =>
       counter' = Upgraded(counter, t)]_ivars

====
