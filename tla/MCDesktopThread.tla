-------------------------- MODULE MCDesktopThread --------------------------
\* Instances of DesktopThread for TLC.
EXTENDS DesktopThread
CONSTANTS T1
=============================================================================
