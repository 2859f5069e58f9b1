------------------------------- MODULE Plans -------------------------------
(***************************************************************************)
(* The recipes of nclr's logical plans: the sequence of actions a plan of  *)
(* level C1 (overwrite through the LBA interface) or C2 (erase command of  *)
(* the device) must contain, and the action that has a fallback.           *)
(* plan.rs builds a plan with exactly these actions and refuses any other. *)
(***************************************************************************)
EXTENDS Integers, Sequences

Levels == {"C1", "C2"}

Erase == "device-user-area-erase"

\* plan_l1: PRBS pass, power cycle, read back, zero pass, power cycle, read
\* back.  With --aggressive-lba two more PRBS passes precede the zero pass.
L1Recipe(aggressive) ==
    IF aggressive
    THEN << "inventory", "lba-prbs-write", "flush", "power-cycle",
            "lba-prbs-verify",
            "lba-prbs-write-churn-0", "lba-prbs-verify-churn-0",
            "lba-prbs-write-churn-1", "lba-prbs-verify-churn-1",
            "lba-zero-write", "flush", "power-cycle", "lba-zero-verify",
            "signature-check", "postcheck-l1" >>
    ELSE << "inventory", "lba-prbs-write", "flush", "power-cycle",
            "lba-prbs-verify",
            "lba-zero-write", "flush", "power-cycle", "lba-zero-verify",
            "signature-check", "postcheck-l1" >>

\* plan_c2: the erase, its verification, a power cycle and a second look.
C2Recipe == << "inventory", Erase, "blank-verify", "signature-check",
               "power-cycle", "postcheck-p2" >>

Recipe(level, aggressive) ==
    IF level = "C2" THEN C2Recipe ELSE L1Recipe(aggressive)

PrbsWrites  == {"lba-prbs-write", "lba-prbs-write-churn-0",
                "lba-prbs-write-churn-1"}
PrbsReads   == {"lba-prbs-verify", "lba-prbs-verify-churn-0",
                "lba-prbs-verify-churn-1"}
PatternWrites == PrbsWrites \cup {"lba-zero-write"}
PatternReads  == PrbsReads \cup {"lba-zero-verify"}

ActionIds == PatternWrites \cup PatternReads \cup
             {"inventory", "flush", "power-cycle", "signature-check",
              "postcheck-l1", "postcheck-p2", "blank-verify", Erase}

\* The entry of the plan's fallback list: the erase of a C2 plan falls back
\* to the embedded C1 plan, the PRBS write of a C1 plan to its own zero pass.
FallbackFrom(level) == IF level = "C2" THEN Erase ELSE "lba-prbs-write"
=============================================================================
