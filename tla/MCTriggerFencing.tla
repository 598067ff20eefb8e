-------------------------- MODULE MCTriggerFencing --------------------------
(***************************************************************************)
(* The default "s,b", sequences without 'b', with 'b' before the end, with *)
(* 'b' twice, with signals before, behind and without a 'b', and the       *)
(* longer sequences administrators know.                                   *)
(***************************************************************************)
EXTENDS TriggerFencing

MCSysRqSequences ==
  { <<"s", "b">>, <<"b">>, <<"s">>, <<"c">>, <<"s", "o">>, <<"b", "s">>, <<"b", "b">>,
    <<"b", "c">>, <<"b", "e">>, <<"s", "i">>, <<"s", "u", "b">>,
    <<"e", "i", "s", "u", "b">> }
=============================================================================
