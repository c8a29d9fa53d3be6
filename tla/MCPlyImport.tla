----------------------------- MODULE MCPlyImport -----------------------------
(* Small files that reach every early return: layouts that are accepted    *)
(* and not, payloads that are truncated or hold a value that does not      *)
(* decode, scales at the ends of the float range; and calls with every     *)
(* option, full and metadata-only, plain loads and reloads.  In a second   *)
(* setting fewer files and calls, and a file that is replaced meanwhile.   *)
EXTENDS PlyImport

Header(n, restCount) ==
  [count |-> n,
   scalar |-> {RequiredProperties[m] : m \in DOMAIN RequiredProperties},
   list |-> {}, unknown |-> 0,
   rest |-> [m \in 1 .. restCount |-> RestProperty(m - 1, TRUE)]]

Row(scale, opacity) ==
  [bad |-> {}, scale |-> scale, opacity |-> opacity, quat |-> "unit"]

File(size, head, row) ==
  [opens |-> TRUE, payload |-> TRUE, size |-> size, header |-> head, row |-> row]

OneRow(size, restCount, scale, opacity) ==
  File(size, Header(1, restCount), [n \in {0} |-> Row(scale, opacity)])

Two == File(2, [Header(2, 9) EXCEPT !.unknown = 1],
            [n \in 0 .. 1 |->
               [Row(n, n) EXCEPT !.quat = IF n = 0 THEN "long" ELSE "zero"]])

GoodFiles == {OneRow(1, 0, 1, 1), Two, OneRow(3, 24, 1, 0), OneRow(4, 0, 2, 1)}

Truncated1 == [Two EXCEPT !.payload = FALSE]
Gone       == [Two EXCEPT !.opens = FALSE, !.size = 0]

BadFiles ==
  {Truncated1, Gone,
   OneRow(5, 9, ScaleMax + 1, 1), OneRow(5, 9, -1, 1),
   OneRow(5, 3, 1, 1),
   File(6, Header(0, 0), <<>>),
   File(7, Header(3, 0), [n \in 0 .. 2 |-> Row(1, 1)])}
  \cup {[OneRow(8, 9, 1, 1) EXCEPT !.row[0].bad = {Groups[m]}] : m \in 1 .. 6}

(* A layout whose f_rest_* properties are out of order is a good one, too. *)
Reordered ==
  [OneRow(9, 9, 1, 1) EXCEPT !.header.rest =
     [m \in 1 .. 9 |-> RestProperty(9 - m, TRUE)]]

AtRest == GoodFiles \cup BadFiles \cup {Reordered}
Replaced ==
  {Two, OneRow(3, 24, 1, 0), OneRow(5, 9, ScaleMax, 1), Gone}

Plain == [valid |-> TRUE, metadataOnly |-> FALSE, stats |-> TRUE,
          changeBlock |-> TRUE, shDegree |-> -1, opacityThreshold |-> -1,
          scaleShift |-> 0]

Calls ==
  [valid : {TRUE}, metadataOnly : {FALSE}, stats : {FALSE}, changeBlock : {TRUE},
   shDegree : {-1, 0}, opacityThreshold : {-1, 1}, scaleShift : {0, 1}]
  \cup {[Plain EXCEPT !.metadataOnly = TRUE, !.shDegree = d] : d \in {-1, 0}}
  \cup {[Plain EXCEPT !.valid = FALSE], [Plain EXCEPT !.changeBlock = FALSE],
        [Plain EXCEPT !.opacityThreshold = 1],
        [Plain EXCEPT !.opacityThreshold = 2],
        [Plain EXCEPT !.shDegree = 3], [Plain EXCEPT !.scaleShift = -2]}

CallsMeanwhile ==
  {Plain, [Plain EXCEPT !.metadataOnly = TRUE],
   [Plain EXCEPT !.opacityThreshold = 1, !.shDegree = 1, !.scaleShift = 1]}

MCSettings ==
  {[versions |-> AtRest, requests |-> Calls, edits |-> FALSE],
   [versions |-> Replaced, requests |-> CallsMeanwhile, edits |-> TRUE]}
=============================================================================
