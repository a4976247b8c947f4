------------------------------- MODULE MCDaemon -------------------------------
EXTENDS Daemon

MCAfterGivingUp == {6}    \* what a process that spent its schedule left behind
MCOnce == {1}

=============================================================================
