--------------------- MODULE MCDeploymentNotifications ---------------------
EXTENDS DeploymentNotifications

CONSTANTS k1, k2

OneKey == {k1}
TwoKeys == {k1, k2}
=============================================================================
