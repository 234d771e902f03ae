-------------------------- MODULE DataBlockIndex --------------------------
(***************************************************************************)
(* How a DataBlockManager that starts on an existing directory finds the   *)
(* index of the last data block: a binary search over the indices up to    *)
(* data_block_index_threshold that asks for each whether its meta file     *)
(* exists.  DataBlockSync uses its result.                                 *)
(***************************************************************************)
EXTENDS Integers

CONSTANT Threshold    \* data_block_index_threshold

ASSUME DataBlockIndexAssumption == Threshold \in Nat

VARIABLES
  number,       \* meta files in the directory, with indices 0 .. number - 1
  low_index,
  high_index,
  saved_index   \* _saved_data_block_index, NotFound before the search has ended

searchVars == <<number, low_index, high_index, saved_index>>
NotFound == -2    \* below every index

SearchTypeOK ==
  /\ number \in 0..(Threshold + 1)
  /\ low_index \in 0..(Threshold + 1)
  /\ high_index \in -1..Threshold
  /\ saved_index \in {NotFound} \cup -1..Threshold

SearchInit ==
  /\ number \in 0..(Threshold + 1)
  /\ low_index = 0
  /\ high_index = Threshold
  /\ saved_index = NotFound

Exists(i) == i < number

\* Mutant: rounding up at the wrong end.
ProbeKeepsLow ==
  /\ saved_index = NotFound
  /\ low_index <= high_index
  /\ LET data_index == (low_index + high_index) \div 2 IN
       IF Exists(data_index)
       THEN low_index' = data_index /\ UNCHANGED high_index
       ELSE high_index' = data_index - 1 /\ UNCHANGED low_index
  /\ UNCHANGED <<number, saved_index>>

Probe ==
  /\ saved_index = NotFound
  /\ low_index <= high_index
  /\ LET data_index == (low_index + high_index) \div 2 IN
       IF Exists(data_index)
       THEN low_index' = data_index + 1 /\ UNCHANGED high_index
       ELSE high_index' = data_index - 1 /\ UNCHANGED low_index
  /\ UNCHANGED <<number, saved_index>>

\* Mutant: the lower bound is taken.
FoundLow ==
  /\ saved_index = NotFound
  /\ low_index > high_index
  /\ saved_index' = IF low_index <= Threshold THEN low_index ELSE Threshold
  /\ UNCHANGED <<number, low_index, high_index>>

Found ==
  /\ saved_index = NotFound
  /\ low_index > high_index
  /\ saved_index' = high_index
  /\ UNCHANGED <<number, low_index, high_index>>

SearchNext == Probe \/ Found

Search == SearchInit /\ [][SearchNext]_searchVars

\* The constructor runs to its end.
FairSearch == Search /\ WF_searchVars(SearchNext)

\* The search returns the last index in use, -1 for an empty directory, also at
\* the two ends of the range.
FindsLast == saved_index # NotFound => saved_index = number - 1

\* It ends.
Ends == <>(saved_index # NotFound)

\* The first unused index stays between the bounds.
Between ==
  /\ low_index <= number
  /\ number <= high_index + 1
  /\ saved_index # NotFound => low_index > high_index /\ saved_index = high_index

SearchInv == SearchTypeOK /\ Between
=============================================================================
