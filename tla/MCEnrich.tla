----------------------------- MODULE MCEnrich -----------------------------
(* EnrichQueue on one My Drive file of three chunks, each a part of its    *)
(* own; the last one, when the file gets it, repeats the first, and so     *)
(* does the second when it is edited.                                      *)
EXTENDS EnrichQueue

MCThreadOf(c)   == "file"
MCKeyOf(c)      == 1
MCContent(c, v) == IF <<c, v>> \in {<<3, 0>>, <<2, 1>>} THEN <<1, 0>> ELSE <<c, v>>
===========================================================================
