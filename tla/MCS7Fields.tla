----------------------------- MODULE MCS7Fields -----------------------------
(***************************************************************************)
(* An instance of S7Fields.  The numbers are all those of two small         *)
(* formats.  The STRING is of four bytes with one byte behind it, written   *)
(* and read in two chunks each; the texts are cut at every place of         *)
(* characters of every width.                                               *)
(***************************************************************************)
EXTENDS S7Fields

const_One   == [name |-> "one", width |-> 1]
const_Two   == [name |-> "two", width |-> 2]
const_Three == [name |-> "three", width |-> 3]
const_Four  == [name |-> "four", width |-> 4]
const_Plc   == [name |-> "plc", width |-> 1]

const_Alphabet == {const_One, const_Two, const_Three, const_Four, const_Plc}

const_Texts ==
  {<<const_One>>,
   <<const_One, const_One, const_Three>>,
   <<const_Two, const_Three>>,
   <<const_Three, const_Two>>,
   <<const_One, const_Four>>,
   <<const_Four, const_One>>}

const_PlcTexts == {<<>>, <<const_Plc, const_Plc, const_Plc>>}
=============================================================================
