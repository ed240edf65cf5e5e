------------------------ MODULE MCApprovalNotifications ------------------------
EXTENDS ApprovalNotifications
================================================================================
