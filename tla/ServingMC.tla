------------------------------ MODULE ServingMC -----------------------------
EXTENDS Serving

\* Programs that read first, that print more errors than a pipe takes, that do not
\* read before they have printed, and that never end
SomeScripts == {<<"read", "out">>, <<"err", "err", "out">>, <<"out", "out", "read">>, <<"stay">>}
=============================================================================
