---------------------------- MODULE MCControlPlane ----------------------------
EXTENDS ControlPlane

\* Two profile names, one of them the sessions' default.
MCNames == {"default", "other"}

\* Two bucket bounds; an observed 3 lands only in +Inf.
MCBounds == <<1, 2>>
==============================================================================
