------------------------------ MODULE MCCodec -------------------------------
(* Texts with what the code looks for: at the end, before another such       *)
(* character, and where a text is cut.                                       *)
EXTENDS Codec

MCSupported == {<<"x">>}

\* An update stores any of them.
MCProtocols == {<<>>, <<"x">>, <<"x", Quote>>, <<Backslash, "x">>}

MCTexts ==
    {<<Backslash>>, <<Quote, Close>>, <<Backslash, "n">>, <<Newline>>,
     <<Backslash, Quote>>, <<"x", "x", "x", Quote>>, <<Open, ListClose>>,
     <<"x", Newline, Newline, "x">>, <<Close, Open, Backslash, Backslash>>,
     <<Quote, "text", Quote, Colon, Quote>>}

\* The longest object two fields can make, and its terminating zero.
MCObjectCap == (ProtocolCap - 1) + (EscapeCap - 1) + 16
=============================================================================
