---------------------------- MODULE MCInputKeys ----------------------------
(* A keyboard of two shifts, an AltGr and one letter.  One symbol is AltGr    *)
(* and the letter's key, one is a dead key under shift and then a plain key.  *)
EXTENDS InputKeys

MCMods == {"lshift", "rshift", "altgr"}
MCChars == {"a"}
MCBit == [lshift |-> "shift", rshift |-> "shift", altgr |-> "altgr"]
MCBitOrder == <<"shift", "altgr">>
MCLayout == {"shift", "altgr"}
MCModKey == [shift |-> "lshift", altgr |-> "altgr"]
MCSymbols ==
    {[prefix |-> <<>>, mods |-> {"altgr"}, code |-> "a"],
     [prefix |-> <<[mods |-> {"shift"}, code |-> "a"]>>, mods |-> {}, code |-> "a"]}
=============================================================================
