------------------------------ MODULE MCXmerge ------------------------------
EXTENDS Xmerge

\* An empty file between two of which one needs more than one read.
MCLens == <<3, 0, 2>>

=============================================================================
