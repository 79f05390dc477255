---- MODULE MCRenderBundle ----
EXTENDS RenderBundle
====
