------------------------------- MODULE SlotByTime -------------------------------
(***************************************************************************)
(* The arithmetic that turns a time into a slot: the length of a slot is   *)
(* averaged over samples that the node reports, and the distance to the    *)
(* time is counted in slots from the current one. The release build wraps  *)
(* around below 0 and above u64 (no overflow-checks in a profile).         *)
(***************************************************************************)
EXTENDS Integers, SequencesExt

CONSTANTS SlotMax  \* the largest u64

DEFAULT_MS_PER_SLOT == 400

NoSlotInSample(samples) == \E i \in DOMAIN samples : samples[i].num_slots = 0

SampleTime(s) == (s.sample_period_secs * 1000) \div s.num_slots

IsSane(average_time) ==
    average_time \in (DEFAULT_MS_PER_SLOT \div 2) .. (DEFAULT_MS_PER_SLOT * 2)

AverageTime(samples) ==
    FoldLeft(LAMBDA total, s : total + SampleTime(s), 0, samples) \div Len(samples)

\* get_average_slot_time, of samples that each have a slot: else it panics.
get_average_slot_time(samples) ==
    IF samples # <<>> /\ IsSane(AverageTime(samples))
    THEN AverageTime(samples) ELSE DEFAULT_MS_PER_SLOT

as_slot(n) == n % (SlotMax + 1)

\* The product wraps around before it is divided.
SlotsRoundedUp(seconds, average_slot_time) ==
    as_slot(seconds * 1000 + average_slot_time) \div average_slot_time
SlotsOf(seconds, average_slot_time) == as_slot(seconds * 1000) \div average_slot_time

\* The slot of process_set_activation_slot_by_time and process_get_slot.
slot_at(enable_time, current_time, current_slot, average_slot_time) ==
    as_slot(IF enable_time > current_time
            THEN current_slot + SlotsOf(enable_time - current_time, average_slot_time)
            ELSE current_slot - SlotsOf(current_time - enable_time, average_slot_time))
================================================================================
