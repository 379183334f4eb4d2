----------------------------- MODULE MCMainLoop -----------------------------
(* A client and a browser.                                                   *)
EXTENDS MainLoop

CONSTANTS viewer, browser

MCUnix     == {viewer}
MCBrowsers == {browser}
MCSignals  == <<0, 2>>
=============================================================================
