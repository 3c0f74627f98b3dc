--------------------------- MODULE MCDescriptors ---------------------------
(* Model values for Descriptors: descriptors of each type, of the right      *)
(* length, too short, and too long for the buffer.                           *)
EXTENDS Descriptors

Desc(t, lens, nums, cnts) == [type : {t}, len : lens, num : nums, cnt : cnts]

ConfigHeaders ==
    Desc("config", {8, 9}, {1}, {1, 2}) \cup Desc("interface", {9}, {0, 1}, 0..2)
       \cup Desc("interface", {8}, {0}, {0}) \cup Desc("endpoint", {6, 7}, {0}, {0})
       \cup Desc("other", {1, 2, 40}, {0}, {0})

BosHeaders ==
    Desc("bos", {4, 5}, {0}, 0..2) \cup Desc("capability", {2, 3, 40}, {0}, {0})

CompanionHeaders ==
    Desc("companion", {5, 6}, {0}, {0}) \cup Desc("other", {1, 2, 40}, {0}, {0})

ParserHeaders ==
    [config |-> ConfigHeaders, next |-> ConfigHeaders, bos |-> BosHeaders,
     companion |-> CompanionHeaders]
=============================================================================
