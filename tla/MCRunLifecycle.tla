---- MODULE MCRunLifecycle ----
EXTENDS RunLifecycle
====
