------------------------------ MODULE MCDesktop -----------------------------
(* Hotkeys as a configuration may name them: the default, aliases, a       *)
(* separator at the end, the chords that are refused, and malformed ones.  *)
EXTENDS Desktop

HotkeyTexts == {<<>>, <<"control", "alt", "v">>, <<"ctrl", "shift", "meta", "v">>,
  <<"ctrl", "shift", "alt", "v">>, <<"shift", "v", "">>, <<"shift", "f9">>,
  <<"ctrl", "v">>, <<"shift", "ctrl", "v">>, <<"alt", "", "v">>, <<"alt", "alt", "v">>,
  <<"v">>, <<"alt", "hyper">>, <<"alt", "v", "f9">>, <<"alt", "shift">>}
=============================================================================
