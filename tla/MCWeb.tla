-------------------------------- MODULE MCWeb --------------------------------
(* An instance of Web for TLC.                                             *)
EXTENDS Web

\* A letter (it is the cookie's name), a letter beyond ASCII, one beyond Latin-1 and
\* everything that means something to one of the readers.
MCChar ==
  {115, 233, 256, Lf, Cr, Space, Quote, Percent, Plus, Comma, Semicolon, Equals, Backslash}
=============================================================================
